---- MODULE Spec2Model ----
(***************************************************************************)
(* Console-Chat: the main process (src/Console-Chat/src/main.ts) and the   *)
(* renderer's store.                                                       *)
(*                                                                         *)
(*   Spec     the streaming chat relay: ipcMain.on('stream-message') with  *)
(*            handleOllamaStream (NDJSON) and handleApiStream (SSE).       *)
(*   RagSpec  the RAG index store: rag-index, rag-query, rag-clear-index   *)
(*            over the electron-store key 'ragIndex', two builds at once.  *)
(*   CorpusSpec  one build and one query over a larger corpus.             *)
(*   InfoSpec    one build and one query with rag-index-info.              *)
(*   BuildSpec   one build with a working embedding service, over source   *)
(*            lists with skipped files and with files reached twice.       *)
(*   HelperSpec  chunkText, cosineSimilarity, collectFiles and             *)
(*            PromptEngineer.generatePrompt on drawn arguments.            *)
(*   LoopSpec    the while loop of chunkText, iteration by iteration.      *)
(*   AppSpec  the renderer's store (useAppStore) with the stream           *)
(*            listeners of App and the send handlers of ChatInput.         *)
(*   SendSpec    the send handlers with sendMessage's RAG lookup, then     *)
(*            the stream events; SendFairSpec adds that lookups settle     *)
(*            and streams deliver their terminal event.                    *)
(*                                                                         *)
(* Response bodies are ASCII, so one byte of the body is one character of  *)
(* the text TextDecoder.decode(value, {stream: true}) produces and a read  *)
(* boundary at a byte offset is a boundary at the same character offset.   *)
(***************************************************************************)
EXTENDS Integers, Sequences, FiniteSets, TLC

(***************************************************************************)
(* JavaScript string helpers used by the two stream handlers.              *)
(***************************************************************************)

\* String.prototype.indexOf('\n', from - 1) + 1: the first newline at or after
\* position from (1-based), 0 when there is none
IndexOfNewline(s, from) ==
    LET hits == { i \in from..Len(s) : SubSeq(s, i, i) = "\n" }
    IN  IF hits = {} THEN 0
        ELSE CHOOSE i \in hits : \A j \in hits : i <= j

RECURSIVE SplitFrom(_, _)
\* the pieces of s that start at or after position start
SplitFrom(s, start) ==
    LET i == IndexOfNewline(s, start)
    IN  IF i = 0
        THEN <<SubSeq(s, start, Len(s))>>
        ELSE <<SubSeq(s, start, i - 1)>> \o SplitFrom(s, i + 1)

\* String.prototype.split('\n')
split(s) ==
    SplitFrom(s, 1)

\* the characters String.prototype.trim removes that occur in the bodies
IsSpace(c) ==
    c \in {" ", "\n", "\r", "\t"}

RECURSIVE TrimStart(_)
TrimStart(s) ==
    IF Len(s) > 0 /\ IsSpace(SubSeq(s, 1, 1))
    THEN TrimStart(SubSeq(s, 2, Len(s)))
    ELSE s

RECURSIVE TrimEnd(_)
TrimEnd(s) ==
    IF Len(s) > 0 /\ IsSpace(SubSeq(s, Len(s), Len(s)))
    THEN TrimEnd(SubSeq(s, 1, Len(s) - 1))
    ELSE s

\* String.prototype.trim
trim(s) ==
    TrimEnd(TrimStart(s))

\* String.prototype.startsWith
startsWith(s, prefix) ==
    Len(s) >= Len(prefix) /\ SubSeq(s, 1, Len(prefix)) = prefix

\* String.prototype.slice(n)
slice(s, n) ==
    SubSeq(s, n + 1, Len(s))

\* Array.prototype.pop: the last element, and the array without it
Last(seq) ==
    seq[Len(seq)]

Front(seq) ==
    SubSeq(seq, 1, Len(seq) - 1)

(***************************************************************************)
(* JSON.parse on the texts that occur on the wire.  A parsed document is   *)
(* kept as the three paths the handlers read: parsed.done,                 *)
(* parsed.message?.content and parsed.choices?.[0]?.delta?.content.        *)
(* Undefined and Null stand for the JavaScript values of those names.      *)
(***************************************************************************)

Undefined == "<undefined>"
Null == "<null>"

Doc(done, messageContent, deltaContent) ==
    [done |-> done, messageContent |-> messageContent, deltaContent |-> deltaContent]

\* NDJSON lines of the local-inference chat RPC
OllamaHi     == "{\"message\":{\"content\":\"Hi\"},\"done\":false}"
OllamaLo     == "{\"message\":{\"content\":\"lo\"},\"done\":false}"
OllamaDone   == "{\"done\":true}"
OllamaLast   == "{\"message\":{\"content\":\"!\"},\"done\":true}"
OllamaNoFlag == "{\"message\":{\"content\":\"A\"}}"
OllamaNull   == "{\"message\":{\"content\":null},\"done\":false}"
OllamaEmpty  == "{\"message\":{\"content\":\"\"},\"done\":false}"
OllamaNoMsg  == "{\"done\":false}"
\* payloads of the `data: ` lines of the OpenAI-compatible chat RPC
SseYo        == "{\"choices\":[{\"delta\":{\"content\":\"Yo\"}}]}"
SseBang      == "{\"choices\":[{\"delta\":{\"content\":\"!\"}}]}"
SseNull      == "{\"choices\":[{\"delta\":{\"content\":null}}]}"
SseRole      == "{\"choices\":[{\"delta\":{\"role\":\"assistant\"}}]}"
SseNoChoice  == "{\"choices\":[]}"
\* texts that are not JSON
Malformed    == "{\"message\":"
SseMalformed == "{oops"

\* the well-formed documents and what the handlers can read from them
JsonDocs ==
    (OllamaHi     :> Doc("false", "Hi", Undefined)) @@
    (OllamaLo     :> Doc("false", "lo", Undefined)) @@
    (OllamaDone   :> Doc("true", Undefined, Undefined)) @@
    (OllamaLast   :> Doc("true", "!", Undefined)) @@
    (OllamaNoFlag :> Doc(Undefined, "A", Undefined)) @@
    (OllamaNull   :> Doc("false", Null, Undefined)) @@
    (OllamaEmpty  :> Doc("false", "", Undefined)) @@
    (OllamaNoMsg  :> Doc("false", Undefined, Undefined)) @@
    (SseYo        :> Doc(Undefined, Undefined, "Yo")) @@
    (SseBang      :> Doc(Undefined, Undefined, "!")) @@
    (SseNull      :> Doc(Undefined, Undefined, Null)) @@
    (SseRole      :> Doc(Undefined, Undefined, Undefined)) @@
    (SseNoChoice  :> Doc(Undefined, Undefined, Undefined))

\* JSON.parse(text): the document, or a SyntaxError.  Every other text that
\* reaches the parser is a piece of one of the lines above cut at a read
\* boundary: it has unbalanced braces and throws, or it is an inner value
\* ("Hi", null, {"content":"Hi"}) on which none of the three paths is defined
\* (reading .done of null throws inside the same try block).
JSONParse(text) ==
    IF text \in DOMAIN JsonDocs
    THEN [ok |-> TRUE, value |-> JsonDocs[text]]
    ELSE [ok |-> FALSE, value |-> Doc(Undefined, Undefined, Undefined)]

\* JavaScript truthiness of a string-or-absent value
Truthy(v) ==
    v \notin {Undefined, Null, ""}


(***************************************************************************)
(* Events sent to the renderer with window.webContents.send.               *)
(***************************************************************************)

Chunk(content) == <<"stream-chunk", content>>
End == <<"stream-end">>
Error(message) == <<"stream-error", message>>

IsTerminal(e) ==
    e[1] \in {"stream-end", "stream-error"}

(***************************************************************************)
(* handleOllamaStream: what one read sends.                                *)
(***************************************************************************)

OllamaLineEndsOnDone(line) ==
    LET parsed == JSONParse(line)
    IN  IF parsed.ok /\ parsed.value.done = "true"
        THEN <<End>>
        ELSE IF parsed.ok /\ parsed.value.done = "false" /\ Truthy(parsed.value.messageContent)
        THEN <<Chunk(parsed.value.messageContent)>>
        ELSE <<>>

\* the body of the forEach callback: one piece of the read
OllamaLineEvents(line) ==
    LET parsed == JSONParse(line)
    IN  IF parsed.ok /\ parsed.value.done = "false" /\ Truthy(parsed.value.messageContent)
        THEN <<Chunk(parsed.value.messageContent)>>
        ELSE <<>>

RECURSIVE OllamaStopAtError(_)
OllamaStopAtError(lines) ==
    IF lines = <<>> THEN <<>>
    ELSE IF Head(lines) = "" THEN OllamaStopAtError(Tail(lines))
    ELSE IF ~JSONParse(Head(lines)).ok THEN <<>>
    ELSE OllamaLineEvents(Head(lines)) \o OllamaStopAtError(Tail(lines))

RECURSIVE OllamaForEach(_)
\* .filter(line => line).forEach(...): empty pieces are dropped, every other
\* piece is handled on its own, a throw inside the callback is caught there
OllamaForEach(lines) ==
    IF lines = <<>> THEN <<>>
    ELSE IF Head(lines) = "" THEN OllamaForEach(Tail(lines))
    ELSE OllamaLineEvents(Head(lines)) \o OllamaForEach(Tail(lines))

\* chunk.split('\n').filter(...).forEach(...)
OllamaOnRead(chunk) ==
    OllamaForEach(split(chunk))

(***************************************************************************)
(* handleApiStream: what one read sends and what it leaves in the buffer.  *)
(***************************************************************************)

\* the body of `for (const line of lines)`
ApiLineEvents(line) ==
    LET trimmed == trim(line)
    IN  IF startsWith(trimmed, "data: ")
        THEN LET data == slice(trimmed, 6)
             IN  IF data = "[DONE]" THEN <<>>
                 ELSE LET parsed == JSONParse(data)
                      IN  IF parsed.ok /\ Truthy(parsed.value.deltaContent)
                          THEN <<Chunk(parsed.value.deltaContent)>>
                          ELSE <<>>
        ELSE <<>>

RECURSIVE ApiForLines(_)
ApiForLines(lines) ==
    IF lines = <<>> THEN <<>>
    ELSE ApiLineEvents(Head(lines)) \o ApiForLines(Tail(lines))

ApiBufferDropped(lines) ==
    ""

\* buffer = lines.pop() || ''  (the value kept for the next read)
ApiNextBuffer(lines) ==
    Last(lines)

ApiLinesNotPopped(lines) ==
    lines

\* lines after lines.pop(): the complete lines of this read
ApiCompleteLines(lines) ==
    Front(lines)

\* one iteration of the read loop with a value: the events sent, the buffer kept
ApiOnRead(buf, chunk) ==
    LET lines == split(buf \o chunk)
    IN  [events |-> ApiForLines(ApiCompleteLines(lines)),
         buffer |-> ApiNextBuffer(lines)]

\* a `data: [DONE]` line is among the complete lines of this read
ApiSawDone(buf, chunk) ==
    LET lines == ApiCompleteLines(split(buf \o chunk))
    IN  \E i \in 1..Len(lines) : trim(lines[i]) = "data: [DONE]"

(***************************************************************************)
(* The stream relay as a state machine: one stream-message from dispatch   *)
(* to the return of its handler.                                           *)
(***************************************************************************)

VARIABLES
    pc,           \* "idle", "fetching" (await fetch), "reading" (await reader.read), "done"
    variant,      \* which handler runs: "ollama" or "api"
    response,     \* the Response fetch resolved with: ok, status, body text
    pos,          \* characters of response.body the reader has delivered
    buffer,       \* handleApiStream's `buffer`
    events,       \* everything sent to the renderer so far, in order
    fault,        \* what went wrong outside the handler, "none" if nothing
    midLineRead,  \* a read ended inside a line, with more of the body to come
    doneSeen      \* handleApiStream has processed a `data: [DONE]` line

streamVars == <<pc, variant, response, pos, buffer, events, fault, midLineRead, doneSeen>>

\* the state of the RAG handlers, described with them below
VARIABLES
    store,    \* the value under RAG_INDEX_KEY, NoIndex while the key was never set
    builds,   \* the rag-index invocations: locals and position of each
    queries,  \* the rag-query invocations: locals and position of each
    clock     \* what Date.now() returns next

ragVars == <<store, builds, queries, clock>>

\* the last call of a helper function that was followed on its own
VARIABLES
    call      \* which helper, its arguments and what it returned

helperVars == <<call>>

\* the renderer's store (useAppStore) and the stream it is listening to
VARIABLES
    chats,          \* state.chats: each chat's id and messages, in order
    currentChatId,  \* state.currentChatId, NoChat for null
    streaming,      \* state.streaming
    nextId,         \* the id uuidv4() returns next
    relay,          \* the main process's side of the stream: open, deltas sent
    turn,           \* the chat turn of the latest stream: which it is, where
                    \* its placeholder was pushed, whether it was disturbed
    send            \* the sendMessage('user') calls with their RAG lookups, the
                    \* streamMessage payloads dispatched, the streams in flight

appVars == <<chats, currentChatId, streaming, nextId, relay, turn, send>>

vars == <<streamVars, ragVars, helperVars, appVars>>

NoResponse == [ok |-> FALSE, status |-> 0, body |-> ""]

\* bodies the local-inference server may answer with
OllamaBodies ==
    { "",
      OllamaHi \o "\n" \o OllamaDone \o "\n",
      Malformed \o "\n" \o OllamaNull \o "\n" \o OllamaHi \o "\n" \o OllamaLo \o "\n",
      OllamaNoFlag \o "\n" \o OllamaLast \o "\n",
      OllamaEmpty \o "\n\n" \o OllamaNoMsg \o "\n" \o OllamaHi }

SseScenario ==
    "data: " \o SseYo \o "\n\ndata: [DONE]\n\n"

\* bodies an OpenAI-compatible server may answer with
ApiBodies ==
    { "",
      SseScenario,
      SseScenario \o "data: " \o SseBang \o "\n\n",
      "data: " \o SseMalformed \o "\ndata: " \o SseNull \o "\n: ping\ndata: " \o SseYo
          \o "\r\ndata: " \o SseBang \o "\n",
      "data: " \o SseRole \o "\r\n" \o SseBang \o "\ndata: " \o SseNoChoice
          \o "\ndata: " \o SseYo \o "\n",
      "data: " \o SseYo \o "\ndata: " \o SseBang }

Bodies(v) ==
    IF v = "api" THEN ApiBodies ELSE OllamaBodies

\* non-2xx answers: status and error body
ErrorStatuses == {404, 500}
ErrorTexts == {"", "model not found"}

\* the stream-message payloads: type, model and config present or not
Payloads ==
    [type : {"ollama", "api"}, model : {"llama3", Null}, config : {"config", Undefined}]

\* `Ollama API Error (${response.status}): ${errText}` / `API Error ${response.status}: ${errText}`
StatusMessage(v, r) ==
    IF v = "api"
    THEN "API Error " \o ToString(r.status) \o ": " \o r.body
    ELSE "Ollama API Error (" \o ToString(r.status) \o "): " \o r.body

CatchSendsErrorThenEnd(message) ==
    <<Error(message), End>>

\* the catch block of ipcMain.on('stream-message')
Catch(message) ==
    <<Error(message)>>

ResponseOkUnchecked(r) ==
    TRUE

\* `if (!response.ok)` of both handlers
ResponseOk(r) ==
    r.ok

StreamInit ==
    /\ pc = "idle"
    /\ variant = "ollama"
    /\ response = NoResponse
    /\ pos = 0
    /\ buffer = ""
    /\ events = <<>>
    /\ fault = "none"
    /\ midLineRead = FALSE
    /\ doneSeen = FALSE

\* ipcMain.on('stream-message') up to the handler's `await fetch`
StreamMessage(payload) ==
    /\ pc = "idle"
    /\ variant' = IF payload.type = "api" THEN "api" ELSE "ollama"
    /\ IF payload.type = "api" /\ payload.config = Undefined
       THEN /\ events' = events \o Catch("Missing API config for stream.")
            /\ fault' = "missing-config"
            /\ pc' = "done"
       ELSE IF payload.type # "api" /\ ~Truthy(payload.model)
       THEN /\ events' = events \o Catch("Missing Ollama model.")
            /\ fault' = "missing-model"
            /\ pc' = "done"
       ELSE /\ pc' = "fetching"
            /\ UNCHANGED <<events, fault>>
    /\ UNCHANGED <<response, pos, buffer, midLineRead, doneSeen, ragVars, helperVars, appVars>>

\* fetch rejects (server unreachable): the handler throws into the catch block
FetchRejects ==
    /\ pc = "fetching"
    /\ events' = events \o Catch("fetch failed")
    /\ fault' = "fetch-reject"
    /\ pc' = "done"
    /\ UNCHANGED <<variant, response, pos, buffer, midLineRead, doneSeen, ragVars, helperVars, appVars>>

\* fetch resolves: a non-2xx response throws with status and error body,
\* any other response hands its body to the read loop
FetchResolves(r) ==
    /\ pc = "fetching"
    /\ response' = r
    /\ IF ResponseOk(r)
       THEN /\ pc' = "reading"
            /\ UNCHANGED <<events, fault>>
       ELSE /\ events' = events \o Catch(StatusMessage(variant, r))
            /\ fault' = "non-2xx"
            /\ pc' = "done"
    /\ UNCHANGED <<variant, pos, buffer, midLineRead, doneSeen, ragVars, helperVars, appVars>>

\* reader.read() resolves with a value: the next k characters of the body
Read(k) ==
    /\ pc = "reading"
    /\ pos + k <= Len(response.body)
    /\ LET chunk == SubSeq(response.body, pos + 1, pos + k)
       IN  /\ pos' = pos + k
           /\ midLineRead' = (midLineRead \/ (pos + k < Len(response.body)
                                               /\ SubSeq(chunk, k, k) # "\n"))
           /\ IF variant = "api"
              THEN /\ events' = events \o ApiOnRead(buffer, chunk).events
                   /\ buffer' = ApiOnRead(buffer, chunk).buffer
                   /\ doneSeen' = (doneSeen \/ ApiSawDone(buffer, chunk))
              ELSE /\ events' = events \o OllamaOnRead(chunk)
                   /\ UNCHANGED <<buffer, doneSeen>>
    /\ UNCHANGED <<pc, variant, response, fault, ragVars, helperVars, appVars>>

\* reader.read() resolves with done: the connection closed after the whole body
ReadDone ==
    /\ pc = "reading"
    /\ pos = Len(response.body)
    /\ events' = events \o <<End>>
    /\ pc' = "done"
    /\ UNCHANGED <<variant, response, pos, buffer, fault, midLineRead, doneSeen, ragVars, helperVars, appVars>>

\* reader.read() rejects (connection reset): the handler throws into the catch block
ReadRejects ==
    /\ pc = "reading"
    /\ events' = events \o Catch("terminated")
    /\ fault' = "read-reject"
    /\ pc' = "done"
    /\ UNCHANGED <<variant, response, pos, buffer, midLineRead, doneSeen, ragVars, helperVars, appVars>>

OkResponses(v) ==
    { [ok |-> TRUE, status |-> 200, body |-> b] : b \in Bodies(v) }

ErrorResponses ==
    { [ok |-> FALSE, status |-> st, body |-> t] : st \in ErrorStatuses, t \in ErrorTexts }


(***************************************************************************)
(* RAG indexing: constants and pure helpers of main.ts.                    *)
(***************************************************************************)

\* maxFileBytes = 2 * 1024 * 1024
maxFileBytes == 2097152
\* maxChunks (500 in main.ts), scaled so that one build can exhaust the budget
\* and an index can still hold more than twenty entries
maxChunks == 22
\* chunkSize (1000 in main.ts) and chunkOverlap (200 in main.ts), scaled alike
chunkSize == 5
chunkOverlap == 2

allowedExtensions ==
    { ".txt", ".md", ".mdx", ".json", ".yaml", ".yml", ".toml", ".ini", ".xml",
      ".html", ".css", ".js", ".jsx", ".ts", ".tsx", ".py", ".pdf", ".java",
      ".cs", ".cpp", ".c", ".go", ".rs", ".sql" }

ignoredFolders ==
    { "node_modules", ".git", ".hg", ".svn", "dist", "build", "out", ".vite" }

Min(a, b) == IF a < b THEN a ELSE b
Max(a, b) == IF a > b THEN a ELSE b

\* the last position of character c in s, 0 when there is none
LastIndexOf(s, c) ==
    LET hits == { i \in 1..Len(s) : SubSeq(s, i, i) = c }
    IN  IF hits = {} THEN 0
        ELSE CHOOSE i \in hits : \A j \in hits : j <= i

UpperCase == "ABCDEFGHIJKLMNOPQRSTUVWXYZ"
LowerCase == "abcdefghijklmnopqrstuvwxyz"

LowerChar(c) ==
    IF \E i \in 1..26 : SubSeq(UpperCase, i, i) = c
    THEN LET i == CHOOSE i \in 1..26 : SubSeq(UpperCase, i, i) = c
         IN  SubSeq(LowerCase, i, i)
    ELSE c

RECURSIVE toLowerCase(_)
\* String.prototype.toLowerCase
toLowerCase(s) ==
    IF s = "" THEN ""
    ELSE LowerChar(SubSeq(s, 1, 1)) \o toLowerCase(SubSeq(s, 2, Len(s)))

\* path.basename (POSIX paths without a trailing slash)
basename(p) ==
    SubSeq(p, LastIndexOf(p, "/") + 1, Len(p))

\* path.extname: from the last dot of the base name, "" when there is no dot
\* or the only dot is the first character
extname(p) ==
    LET base == basename(p)
        dot  == LastIndexOf(base, ".")
    IN  IF dot <= 1 THEN "" ELSE SubSeq(base, dot, Len(base))

\* path.join(dir, name)
join(dir, name) ==
    dir \o "/" \o name

\* the first position at or after from where "\r\n" starts, 0 when there is none
IndexOfCRLF(s, from) ==
    LET hits == { i \in from..(Len(s) - 1) : SubSeq(s, i, i + 1) = "\r\n" }
    IN  IF hits = {} THEN 0
        ELSE CHOOSE i \in hits : \A j \in hits : i <= j

RECURSIVE ReplaceCRLF(_)
\* text.replace(/\r\n/g, '\n')
ReplaceCRLF(s) ==
    LET i == IndexOfCRLF(s, 1)
    IN  IF i = 0 THEN s
        ELSE SubSeq(s, 1, i - 1) \o "\n" \o ReplaceCRLF(SubSeq(s, i + 2, Len(s)))

\* the constants as main.ts sets them
ChunkSizeInSource == 1000
ChunkOverlapInSource == 200
MaxChunksInSource == 500

RECURSIVE ChunkLoopKeepsEmpty(_, _, _, _, _, _)
ChunkLoopKeepsEmpty(cleaned, start, chunks, size, overlap, max) ==
    IF ~(start < Len(cleaned)) THEN chunks
    ELSE LET end    == Min(start + size, Len(cleaned))
             chunk  == trim(SubSeq(cleaned, start + 1, end))
             pushed == Append(chunks, chunk)
         IN  IF end >= Len(cleaned) THEN pushed
             ELSE IF Len(pushed) >= max THEN pushed
             ELSE ChunkLoopKeepsEmpty(cleaned, Max(0, end - overlap), pushed, size, overlap, max)

RECURSIVE ChunkLoopOverlapOffByOne(_, _, _, _, _, _)
ChunkLoopOverlapOffByOne(cleaned, start, chunks, size, overlap, max) ==
    IF ~(start < Len(cleaned)) THEN chunks
    ELSE LET end    == Min(start + size, Len(cleaned))
             chunk  == trim(SubSeq(cleaned, start + 1, end))
             pushed == IF chunk # "" THEN Append(chunks, chunk) ELSE chunks
         IN  IF end >= Len(cleaned) THEN pushed
             ELSE IF Len(pushed) >= max THEN pushed
             ELSE ChunkLoopOverlapOffByOne(cleaned, Max(0, end - overlap - 1), pushed,
                                           size, overlap, max)

RECURSIVE ChunkLoopNoOverlap(_, _, _, _, _, _)
ChunkLoopNoOverlap(cleaned, start, chunks, size, overlap, max) ==
    IF ~(start < Len(cleaned)) THEN chunks
    ELSE LET end    == Min(start + size, Len(cleaned))
             chunk  == trim(SubSeq(cleaned, start + 1, end))
             pushed == IF chunk # "" THEN Append(chunks, chunk) ELSE chunks
         IN  IF end >= Len(cleaned) THEN pushed
             ELSE IF Len(pushed) >= max THEN pushed
             ELSE ChunkLoopNoOverlap(cleaned, end, pushed, size, overlap, max)

RECURSIVE ChunkLoop(_, _, _, _, _, _)
\* the while loop of chunkText: start is 0-based, chunks what has been pushed;
\* size, overlap and max are chunkSize, chunkOverlap and maxChunks
ChunkLoop(cleaned, start, chunks, size, overlap, max) ==
    IF ~(start < Len(cleaned)) THEN chunks
    ELSE LET end    == Min(start + size, Len(cleaned))
             chunk  == trim(SubSeq(cleaned, start + 1, end))
             pushed == IF chunk # "" THEN Append(chunks, chunk) ELSE chunks
         IN  IF end >= Len(cleaned) THEN pushed
             ELSE IF Len(pushed) >= max THEN pushed
             ELSE ChunkLoop(cleaned, Max(0, end - overlap), pushed, size, overlap, max)

\* chunkText with the three constants it reads made explicit
chunkTextWith(text, size, overlap, max) ==
    LET cleaned == trim(ReplaceCRLF(text))
    IN  IF cleaned = "" THEN <<>> ELSE ChunkLoop(cleaned, 0, <<>>, size, overlap, max)

\* chunkText as the builds of this model run it
chunkText(text) ==
    chunkTextWith(text, chunkSize, chunkOverlap, maxChunks)

(***************************************************************************)
(* The file system the indexer walks.  A directory lists its entries in    *)
(* readdir order; a file has a size, its text, and what can go wrong with  *)
(* it.  A path that is not in the table does not exist.                    *)
(***************************************************************************)

Dir(entries, readable) ==
    [type |-> "dir", entries |-> entries, readable |-> readable,
     size |-> 0, text |-> "", nul |-> FALSE, pdfOk |-> FALSE]

File(size, readable, text, nul, pdfOk) ==
    [type |-> "file", entries |-> <<>>, readable |-> readable,
     size |-> size, text |-> text, nul |-> nul, pdfOk |-> pdfOk]

\* a text of more windows than the chunk budget, and one of ten windows with
\* white space in it
LongText ==
    "0123456789abcdefghijklmnopqrstuvwxyzABCDEFGHIJKLMNOPQRSTUVWXYZ0123456789abcdefgh"
TenText ==
    "ab cde fghi  jk lmnopq r stu vwx"

FileSystem ==
    ("/w"                   :> Dir(<<"a.md", "node_modules", "src", "bin.json", "locked", "img.png", "notes.yml">>, TRUE)) @@
    ("/w/a.md"              :> File(8, TRUE, "abcdefgh", FALSE, FALSE)) @@
    ("/w/node_modules"      :> Dir(<<"x.js">>, TRUE)) @@
    ("/w/node_modules/x.js" :> File(2, TRUE, "js", FALSE, FALSE)) @@
    ("/w/src"               :> Dir(<<"B.TXT", "bad.pdf", "dist", "big.txt", "gone.py", "doc.pdf">>, TRUE)) @@
    ("/w/src/B.TXT"         :> File(4, TRUE, "hi\r\n", FALSE, FALSE)) @@
    ("/w/src/bad.pdf"       :> File(3, TRUE, "", FALSE, FALSE)) @@
    ("/w/src/big.txt"       :> File(maxFileBytes + 1, TRUE, "big", FALSE, FALSE)) @@
    ("/w/src/gone.py"       :> File(2, FALSE, "py", FALSE, FALSE)) @@
    ("/w/src/doc.pdf"       :> File(9, TRUE, "pdf", FALSE, TRUE)) @@
    ("/w/bin.json"          :> File(3, TRUE, "{}", TRUE, FALSE)) @@
    ("/w/locked"            :> Dir(<<"secret.md">>, FALSE)) @@
    ("/w/locked/secret.md"  :> File(1, TRUE, "s", FALSE, FALSE)) @@
    ("/w/img.png"           :> File(5, TRUE, "png", FALSE, FALSE)) @@
    ("/w/notes.yml"         :> File(2, TRUE, "ok", FALSE, FALSE)) @@
    ("/w/src/dist"          :> Dir(<<"o.js">>, TRUE)) @@
    ("/w/src/dist/o.js"     :> File(2, TRUE, "js", FALSE, FALSE)) @@
    ("/docs"                :> Dir(<<"long.md", "ten.txt">>, TRUE)) @@
    ("/docs/long.md"        :> File(80, TRUE, LongText, FALSE, FALSE)) @@
    ("/docs/ten.txt"        :> File(32, TRUE, TenText, FALSE, FALSE))

RECURSIVE collectFiles(_, _)
RECURSIVE CollectEntries(_, _, _)

\* `for (const entry of entries)` of collectFiles
CollectEntries(entryPath, names, results) ==
    IF names = <<>> THEN results
    ELSE LET name     == Head(names)
             fullPath == join(entryPath, name)
             entry    == FileSystem[fullPath]
             after    == IF entry.type = "dir"
                         THEN IF name \notin ignoredFolders
                              THEN collectFiles(fullPath, results)
                              ELSE results
                         ELSE IF entry.type = "file"
                                 /\ toLowerCase(extname(name)) \in allowedExtensions
                              THEN Append(results, fullPath)
                              ELSE results
         IN  CollectEntries(entryPath, Tail(names), after)

collectFilesIgnoredRootWalked(entryPath, results) ==
    IF entryPath \notin DOMAIN FileSystem THEN results
    ELSE LET stat == FileSystem[entryPath]
         IN  IF stat.type = "dir"
             THEN IF ~stat.readable THEN results
                  ELSE CollectEntries(entryPath, stat.entries, results)
             ELSE IF stat.type = "file"
                     /\ toLowerCase(extname(entryPath)) \in allowedExtensions
                  THEN Append(results, entryPath)
                  ELSE results

\* collectFiles(entryPath, results): results as the call leaves it; a stat or
\* readdir failure is caught by the call's own try block
collectFiles(entryPath, results) ==
    IF entryPath \notin DOMAIN FileSystem THEN results
    ELSE LET stat == FileSystem[entryPath]
         IN  IF stat.type = "dir"
             THEN IF basename(entryPath) \in ignoredFolders THEN results
                  ELSE IF ~stat.readable THEN results
                  ELSE CollectEntries(entryPath, stat.entries, results)
             ELSE IF stat.type = "file"
                     /\ toLowerCase(extname(entryPath)) \in allowedExtensions
                  THEN Append(results, entryPath)
                  ELSE results

RECURSIVE CollectSourcesStopsAtMissing(_, _)
CollectSourcesStopsAtMissing(sources, files) ==
    IF sources = <<>> THEN files
    ELSE IF Truthy(Head(sources).path) /\ Head(sources).path \notin DOMAIN FileSystem
    THEN files
    ELSE CollectSourcesStopsAtMissing(Tail(sources),
                        IF ~Truthy(Head(sources).path) THEN files
                        ELSE collectFiles(Head(sources).path, files))

RECURSIVE CollectSources(_, _)
\* `for (const source of sources)` of rag-index
CollectSources(sources, files) ==
    IF sources = <<>> THEN files
    ELSE CollectSources(Tail(sources),
                        IF ~Truthy(Head(sources).path) THEN files
                        ELSE collectFiles(Head(sources).path, files))

(***************************************************************************)
(* Embeddings and ranking.  The embedding service is a function of model   *)
(* and text; vectors of different models differ (here even in dimension).  *)
(* A cosine score is kept exactly, as sign(dot) * dot^2 / (normA * normB), *)
(* the square of the value the code computes with its sign: comparing two  *)
(* of them orders them as the code's numbers are ordered.                  *)
(***************************************************************************)

EmbeddingModels == {"nomic-embed-text", "other-model"}

\* the vector the embeddings endpoint answers with
Embed(model, text) ==
    IF model = "nomic-embed-text"
    THEN <<Len(text), 1>>
    ELSE <<1, Len(text), 0>>

RECURSIVE SumTo(_, _, _)
SumTo(a, b, n) ==
    IF n = 0 THEN 0 ELSE a[n] * b[n] + SumTo(a, b, n - 1)

Score(num, den) == [num |-> num, den |-> den]

cosineSimilarityNoNormTest(a, b) ==
    IF Len(a) = 0 \/ Len(a) # Len(b) THEN Score(0, 1)
    ELSE LET dot   == SumTo(a, b, Len(a))
             normA == SumTo(a, a, Len(a))
             normB == SumTo(b, b, Len(a))
         IN  Score((IF dot < 0 THEN -1 ELSE 1) * dot * dot, normA * normB)

cosineSimilarity(a, b) ==
    IF Len(a) = 0 \/ Len(a) # Len(b) THEN Score(0, 1)
    ELSE LET dot   == SumTo(a, b, Len(a))
             normA == SumTo(a, a, Len(a))
             normB == SumTo(b, b, Len(a))
         IN  IF normA = 0 \/ normB = 0 THEN Score(0, 1)
             ELSE Score((IF dot < 0 THEN -1 ELSE 1) * dot * dot, normA * normB)

\* x.score > y.score
ScoreGreater(x, y) ==
    x.score.num * y.score.den > y.score.num * x.score.den

RECURSIVE InsertSortedUnstable(_, _)
InsertSortedUnstable(sorted, x) ==
    IF sorted = <<>> THEN <<x>>
    ELSE IF ~ScoreGreater(Head(sorted), x) THEN <<x>> \o sorted
    ELSE <<Head(sorted)>> \o InsertSortedUnstable(Tail(sorted), x)

RECURSIVE InsertSorted(_, _)
\* put x behind every element that does not score lower than x
InsertSorted(sorted, x) ==
    IF sorted = <<>> THEN <<x>>
    ELSE IF ScoreGreater(x, Head(sorted)) THEN <<x>> \o sorted
    ELSE <<Head(sorted)>> \o InsertSorted(Tail(sorted), x)

RECURSIVE SortByScore(_)
\* scored.sort((a, b) => b.score - a.score): descending, stable
SortByScore(scored) ==
    IF scored = <<>> THEN <<>>
    ELSE InsertSorted(SortByScore(Front(scored)), Last(scored))

DefaultTopK == 5

\* `typeof topK === 'number' && topK > 0 ? topK : 5`; topK is <<>> when absent
Limit(topK) ==
    IF topK # <<>> /\ topK[1] > 0 THEN topK[1] ELSE DefaultTopK

\* existing.entries.map(...).sort(...).slice(0, limit)
RankEntries(entries, queryEmbedding, topK) ==
    LET scored == [ k \in 1..Len(entries) |->
                      [sourcePath |-> entries[k].sourcePath,
                       content    |-> entries[k].content,
                       score      |-> cosineSimilarity(queryEmbedding, entries[k].embedding)] ]
        sorted == SortByScore(scored)
    IN  SubSeq(sorted, 1, Min(Limit(topK), Len(sorted)))

(***************************************************************************)
(* The RAG handlers as a state machine.  Every rag-index and rag-query     *)
(* invocation is an async function with its own locals; the handlers share *)
(* only the electron-store key 'ragIndex'.  store.get returns a value read *)
(* from the persisted file and store.set writes the whole value.           *)
(***************************************************************************)

\* invocations of rag-index and of rag-query that are followed
MaxBuilds == 2
MaxQueries == 1

BuildIds == 1..MaxBuilds
QueryIds == 1..MaxQueries

\* store.get(RAG_INDEX_KEY) when the key was never set
NoIndex == [undefined |-> TRUE]

\* indexedAt: 0 stands for null, Date.now() is positive
NullTime == 0

SentinelKeepsModel ==
    [entries |-> <<>>, indexedAt |-> NullTime, embeddingModel |-> "nomic-embed-text"]

\* the value rag-clear-index writes
Sentinel ==
    [entries |-> <<>>, indexedAt |-> NullTime, embeddingModel |-> Null]

NoIndexResult == [kind |-> "none", error |-> "", count |-> 0, indexedAt |-> NullTime]
IndexError(message) == [kind |-> "error", error |-> message, count |-> 0, indexedAt |-> NullTime]
IndexDone(count, at) == [kind |-> "ok", error |-> "", count |-> count, indexedAt |-> at]

NoQueryResult == [kind |-> "none", error |-> "", results |-> <<>>]
QueryError(message) == [kind |-> "error", error |-> message, results |-> <<>>]
QueryResults(results) == [kind |-> "ok", error |-> "", results |-> results]
QueryRejected(message) == [kind |-> "rejected", error |-> message, results |-> <<>>]

IdleBuild ==
    [pc |-> "idle", model |-> "", files |-> <<>>, fileIdx |-> 0, chunks |-> <<>>,
     i |-> 0, entries |-> <<>>, result |-> NoIndexResult]

\* overtaken records that the store no longer held `existing` when the
\* query's embedding request resolved
IdleQuery ==
    [pc |-> "idle", existing |-> NoIndex, model |-> "", query |-> "", topK |-> <<>>,
     result |-> NoQueryResult, overtaken |-> FALSE]

\* source lists a caller may pass to rag-index
SourceLists ==
    { <<>>,
      <<[path |-> "/w/node_modules"], [path |-> "/w/bin.json"], [path |-> "/w/a.md"],
        [path |-> Undefined], [path |-> "/missing"]>> }

IndexPayloads ==
    [sources : SourceLists, embeddingModel : EmbeddingModels \cup {Undefined}]

QueryPayloads ==
    [query : {"", "hello"}, topK : {<<1>>}, embeddingModel : EmbeddingModels \cup {Undefined}]

RagInit ==
    /\ store = NoIndex
    /\ builds = [b \in BuildIds |-> IdleBuild]
    /\ queries = [q \in QueryIds |-> IdleQuery]
    /\ clock = 1

\* the end of one iteration of `for (const filePath of files)`: the next
\* iteration's budget check, then its first await, or the end of the loop
AfterFile(st) ==
    LET nxt == [st EXCEPT !.fileIdx = @ + 1, !.chunks = <<>>, !.i = 0]
    IN  IF nxt.fileIdx > Len(nxt.files) \/ Len(nxt.entries) >= maxChunks
        THEN [nxt EXCEPT !.pc = "save"]
        ELSE [nxt EXCEPT !.pc = "file"]

OpenFileSkipEndsBuild(st) ==
    LET filePath == st.files[st.fileIdx]
        file     == FileSystem[filePath]
        isPdf    == toLowerCase(extname(filePath)) = ".pdf"
        skipped  == \/ file.size > maxFileBytes
                    \/ ~file.readable
                    \/ isPdf /\ ~file.pdfOk
                    \/ ~isPdf /\ file.nul
        chunks   == chunkText(file.text)
    IN  IF skipped THEN [st EXCEPT !.pc = "save"]
        ELSE IF chunks = <<>> \/ Len(st.entries) >= maxChunks
        THEN AfterFile(st)
        ELSE [st EXCEPT !.chunks = chunks, !.i = 0, !.pc = "embedding"]

\* one file from fs.stat to the first embedding request: a file that is too
\* large, unreadable, binary, an unparsable PDF or without chunks is skipped
OpenFile(st) ==
    LET filePath == st.files[st.fileIdx]
        file     == FileSystem[filePath]
        isPdf    == toLowerCase(extname(filePath)) = ".pdf"
        skipped  == \/ file.size > maxFileBytes
                    \/ ~file.readable
                    \/ isPdf /\ ~file.pdfOk
                    \/ ~isPdf /\ file.nul
        chunks   == chunkText(file.text)
    IN  IF skipped \/ chunks = <<>> \/ Len(st.entries) >= maxChunks
        THEN AfterFile(st)
        ELSE [st EXCEPT !.chunks = chunks, !.i = 0, !.pc = "embedding"]

EmbedReturnedNoBudget(st, embedding) ==
    LET filePath == st.files[st.fileIdx]
        entry    == [id         |-> filePath \o ":" \o ToString(st.i),
                     sourcePath |-> filePath,
                     chunkIndex |-> st.i,
                     content    |-> st.chunks[st.i + 1],
                     embedding  |-> embedding]
        pushed   == [st EXCEPT !.entries = Append(@, entry), !.i = @ + 1]
    IN  IF pushed.i < Len(pushed.chunks)
        THEN pushed
        ELSE AfterFile(pushed)

EmbedReturnedPrepends(st, embedding) ==
    LET filePath == st.files[st.fileIdx]
        entry    == [id         |-> filePath \o ":" \o ToString(st.i),
                     sourcePath |-> filePath,
                     chunkIndex |-> st.i,
                     content    |-> st.chunks[st.i + 1],
                     embedding  |-> embedding]
        pushed   == [st EXCEPT !.entries = <<entry>> \o @, !.i = @ + 1]
    IN  IF pushed.i < Len(pushed.chunks) /\ Len(pushed.entries) < maxChunks
        THEN pushed
        ELSE AfterFile(pushed)

\* fetchOllamaEmbedding resolved: push the entry, then the next chunk's
\* request, or the end of the file
EmbedReturned(st, embedding) ==
    LET filePath == st.files[st.fileIdx]
        entry    == [id         |-> filePath \o ":" \o ToString(st.i),
                     sourcePath |-> filePath,
                     chunkIndex |-> st.i,
                     content    |-> st.chunks[st.i + 1],
                     embedding  |-> embedding]
        pushed   == [st EXCEPT !.entries = Append(@, entry), !.i = @ + 1]
    IN  IF pushed.i < Len(pushed.chunks) /\ Len(pushed.entries) < maxChunks
        THEN pushed
        ELSE AfterFile(pushed)

IndexMergedWithStore(st, now) ==
    [entries        |-> (IF store = NoIndex THEN <<>> ELSE store.entries) \o st.entries,
     indexedAt      |-> now,
     embeddingModel |-> st.model]

IndexKeptWhenBuildEmpty(st, now) ==
    IF st.entries = <<>> /\ store # NoIndex
    THEN [store EXCEPT !.indexedAt = now]
    ELSE [entries |-> st.entries, indexedAt |-> now, embeddingModel |-> st.model]

\* const index = { entries, indexedAt: Date.now(), embeddingModel }
IndexToSave(st, now) ==
    [entries |-> st.entries, indexedAt |-> now, embeddingModel |-> st.model]

\* the build b goes on as st: when its loop has ended it writes the index and
\* returns { count, indexedAt }; its locals are gone with the call
Proceed(b, st) ==
    IF st.pc = "save"
    THEN /\ store' = IndexToSave(st, clock)
         /\ clock' = clock + 1
         /\ builds' = [builds EXCEPT ![b] =
                          [IdleBuild EXCEPT !.pc = "done",
                                            !.result = IndexDone(Len(st.entries), clock)]]
    ELSE /\ builds' = [builds EXCEPT ![b] = st]
         /\ UNCHANGED <<store, clock>>

\* ipcMain.handle('rag-index') up to its first await in the file loop
RagIndex(b, payload) ==
    /\ builds[b].pc = "idle"
    \* invocations are numbered in the order they arrive
    /\ \A earlier \in BuildIds : earlier < b => builds[earlier].pc # "idle"
    /\ IF ~Truthy(payload.embeddingModel)
       THEN /\ builds' = [builds EXCEPT ![b] =
                             [@ EXCEPT !.pc = "done",
                                       !.result = IndexError("Missing embedding model.")]]
            /\ UNCHANGED <<store, clock>>
       ELSE IF Len(payload.sources) = 0
       THEN /\ builds' = [builds EXCEPT ![b] =
                             [@ EXCEPT !.pc = "done",
                                       !.result = IndexError("No sources provided.")]]
            /\ UNCHANGED <<store, clock>>
       ELSE Proceed(b, AfterFile([builds[b] EXCEPT
                                     !.model = payload.embeddingModel,
                                     !.files = CollectSources(payload.sources, <<>>),
                                     !.fileIdx = 0]))
    /\ UNCHANGED <<queries, streamVars, helperVars, appVars>>

\* fs.stat / fs.readFile / pdfParse / chunkText of the build's current file
BuildFile(b) ==
    /\ builds[b].pc = "file"
    /\ Proceed(b, OpenFile(builds[b]))
    /\ UNCHANGED <<queries, streamVars, helperVars, appVars>>

\* the embedding request of the build's current chunk resolves
BuildEmbedOk(b) ==
    /\ builds[b].pc = "embedding"
    /\ LET st == builds[b]
       IN  Proceed(b, EmbedReturned(st, Embed(st.model, st.chunks[st.i + 1])))
    /\ UNCHANGED <<queries, streamVars, helperVars, appVars>>

\* the embedding request throws (unreachable, non-ok status, no embedding
\* array): the file's try block catches it and the loop goes to the next file
BuildEmbedFail(b) ==
    /\ builds[b].pc = "embedding"
    /\ Proceed(b, AfterFile(builds[b]))
    /\ UNCHANGED <<queries, streamVars, helperVars, appVars>>

\* ipcMain.handle('rag-clear-index')
RagClearIndex ==
    /\ store' = Sentinel
    /\ UNCHANGED <<builds, queries, clock, streamVars, helperVars, appVars>>

\* payload.embeddingModel || existing.embeddingModel
ModelToUse(payload, existing) ==
    IF Truthy(payload.embeddingModel) THEN payload.embeddingModel ELSE existing.embeddingModel

IndexEmptyOnlyWhenAbsent(existing) ==
    existing = NoIndex

\* !existing || !Array.isArray(existing.entries) || existing.entries.length === 0
IndexIsEmpty(existing) ==
    existing = NoIndex \/ Len(existing.entries) = 0

ModelMismatchIgnored(payload, existing) ==
    FALSE

\* embeddingModel && existing.embeddingModel && embeddingModel !== existing.embeddingModel
ModelMismatch(payload, existing) ==
    /\ Truthy(payload.embeddingModel)
    /\ Truthy(existing.embeddingModel)
    /\ payload.embeddingModel # existing.embeddingModel

\* ipcMain.handle('rag-query') up to `await fetchOllamaEmbedding`
RagQuery(q, payload) ==
    /\ queries[q].pc = "idle"
    \* invocations are numbered in the order they arrive
    /\ \A earlier \in QueryIds : earlier < q => queries[earlier].pc # "idle"
    /\ LET existing == store
           finish(result) == [queries EXCEPT ![q] = [@ EXCEPT !.pc = "done", !.result = result]]
       IN  queries' =
             IF ~Truthy(payload.query)
             THEN finish(QueryError("Missing query."))
             ELSE IF IndexIsEmpty(existing)
             THEN finish(QueryResults(<<>>))
             ELSE IF ModelMismatch(payload, existing)
             THEN finish(QueryError("Embedding model mismatch (index: "
                                    \o existing.embeddingModel \o ")."))
             ELSE IF ~Truthy(ModelToUse(payload, existing))
             THEN finish(QueryError("No embedding model available."))
             ELSE [queries EXCEPT ![q] =
                      [@ EXCEPT !.pc = "embedding",
                                !.existing = existing,
                                !.model = ModelToUse(payload, existing),
                                !.query = payload.query,
                                !.topK = payload.topK]]
    /\ UNCHANGED <<store, builds, clock, streamVars, helperVars, appVars>>

QueryRereadsStore(qs) ==
    IF store = NoIndex THEN Sentinel ELSE store

\* the index `existing.entries.map(...)` ranks: the value read before the await
ScoredIndex(qs) ==
    qs.existing

\* the query's embedding request resolves: score, sort, slice, return
QueryEmbedOk(q) ==
    /\ queries[q].pc = "embedding"
    /\ LET qs == queries[q]
           results == RankEntries(ScoredIndex(qs).entries, Embed(qs.model, qs.query), qs.topK)
       IN  queries' = [queries EXCEPT ![q] =
                          [@ EXCEPT !.pc = "done", !.result = QueryResults(results),
                                    !.overtaken = (store # qs.existing)]]
    /\ UNCHANGED <<store, builds, clock, streamVars, helperVars, appVars>>

\* the query's embedding request throws: the handler's promise rejects
QueryEmbedFail(q) ==
    /\ queries[q].pc = "embedding"
    /\ queries' = [queries EXCEPT ![q] =
                      [@ EXCEPT !.pc = "done",
                                !.result = QueryRejected("Ollama embeddings error")]]
    /\ UNCHANGED <<store, builds, clock, streamVars, helperVars, appVars>>

RagNext ==
    \/ \E b \in BuildIds, payload \in IndexPayloads : RagIndex(b, payload)
    \/ \E b \in BuildIds : BuildFile(b)
    \/ \E b \in BuildIds : BuildEmbedOk(b)
    \/ \E b \in BuildIds : BuildEmbedFail(b)
    \/ RagClearIndex
    \/ \E q \in QueryIds, payload \in QueryPayloads : RagQuery(q, payload)
    \/ \E q \in QueryIds : QueryEmbedOk(q)
    \/ \E q \in QueryIds : QueryEmbedFail(q)

\* one build and one query over the larger corpus
CorpusSourceLists ==
    { <<>>,
      <<[path |-> "/docs/long.md"], [path |-> "/w/a.md"]>>,
      <<[path |-> "/w/a.md"], [path |-> "/docs/long.md"]>>,
      <<[path |-> "/docs/ten.txt"]>>,
      <<[path |-> "/w/bin.json"]>>,
      <<[path |-> "/w"]>>,
      <<[path |-> "/missing"], [path |-> "/w/locked"], [path |-> "/w/src/B.TXT"]>> }

CorpusIndexPayloads ==
    [sources : CorpusSourceLists, embeddingModel : EmbeddingModels \cup {Undefined}]

CorpusQueryPayloads ==
    [query : {"", "hello", "hi"},
     topK : {<<>>, <<0>>, <<1>>, <<3>>, <<20>>, <<21>>},
     embeddingModel : EmbeddingModels \cup {Undefined}]

CorpusNext ==
    \/ \E payload \in CorpusIndexPayloads : RagIndex(1, payload)
    \/ BuildFile(1)
    \/ BuildEmbedOk(1)
    \/ BuildEmbedFail(1)
    \/ RagClearIndex
    \/ \E payload \in CorpusQueryPayloads : RagQuery(1, payload)
    \/ QueryEmbedOk(1)
    \/ QueryEmbedFail(1)

\* one build whose embedding requests all succeed: source lists with every
\* kind of skipped file, and lists that reach a file more than once
BuildSourceLists ==
    { <<[path |-> "/w"]>>,
      <<[path |-> "/w/src"], [path |-> "/w/src/B.TXT"]>>,
      <<[path |-> "/w"], [path |-> "/w/src"]>>,
      <<[path |-> "/w/bin.json"], [path |-> "/w/a.md"], [path |-> "/w/src/doc.pdf"]>>,
      <<[path |-> "/docs"]>> }

BuildPayloads ==
    [sources : BuildSourceLists, embeddingModel : EmbeddingModels]

BuildNext ==
    \/ \E payload \in BuildPayloads : RagIndex(1, payload)
    \/ BuildFile(1)
    \/ BuildEmbedOk(1)
    \/ RagClearIndex

(***************************************************************************)
(* chunkText and cosineSimilarity called on their own, on arguments drawn  *)
(* from bounded sets.                                                      *)
(***************************************************************************)

NoCall ==
    [fn |-> "none", text |-> "", chunks |-> <<>>, a |-> <<>>, b |-> <<>>,
     score |-> Score(0, 1), roots |-> <<>>, files |-> <<>>,
     info |-> [count |-> 0, indexedAt |-> NullTime, embeddingModel |-> Null],
     task_type |-> "", constraints |-> <<>>, confidence_score |-> 0]

HelperInit ==
    call = NoCall

\* longest text drawn, and the characters it is made of
MaxTextLen == 12
Letters == "abcdefghijklmnopqrstuvwxyz"

RECURSIVE Masked(_, _, _)
\* the first len letters, those at the positions of blanks replaced by " "
Masked(len, blanks, upto) ==
    IF upto = 0 THEN ""
    ELSE Masked(len, blanks, upto - 1)
         \o (IF upto \in blanks THEN " " ELSE SubSeq(Letters, upto, upto))

Texts ==
    UNION { { Masked(len, blanks, len) : blanks \in SUBSET (1..len) } : len \in 0..MaxTextLen }
    \cup { "hi\r\n", "\r\nab\r\ncdefg\r\n\r\nhij\r\n", " \r\n ", LongText, TenText }
    \cup { "a\r\r\nb", "ab\r\r\ncdefg", "\r\r\nab" }

RECURSIVE Repeat(_, _)
Repeat(s, n) ==
    IF n = 0 THEN ""
    ELSE IF n % 2 = 0 THEN LET half == Repeat(s, n \div 2) IN half \o half
    ELSE s \o Repeat(s, n - 1)

\* 2500 characters without white space: ten runs of 250 equal letters
Text2500 ==
    Repeat("a", 250) \o Repeat("b", 250) \o Repeat("c", 250) \o Repeat("d", 250)
    \o Repeat("e", 250) \o Repeat("f", 250) \o Repeat("g", 250) \o Repeat("h", 250)
    \o Repeat("i", 250) \o Repeat("j", 250)

SourceSizedTexts ==
    { Text2500, SubSeq(Text2500, 1, 1000), SubSeq(Text2500, 1, 1001) }

MaxDim == 2
Components == {-1, 0, 1, 2}
Vectors ==
    UNION { [1..n -> Components] : n \in 0..MaxDim }

\* chunkText(text) with the scaled constants
CallChunkText(text) ==
    /\ call = NoCall
    /\ call' = [NoCall EXCEPT !.fn = "chunkText", !.text = text,
                              !.chunks = chunkText(text)]
    /\ UNCHANGED <<streamVars, ragVars, appVars>>

\* chunkText(text) with chunkSize 1000, chunkOverlap 200 and maxChunks 500
CallChunkTextInSource(text) ==
    /\ call = NoCall
    /\ call' = [NoCall EXCEPT !.fn = "chunkTextInSource", !.text = text,
                              !.chunks = chunkTextWith(text, ChunkSizeInSource,
                                                       ChunkOverlapInSource,
                                                       MaxChunksInSource)]
    /\ UNCHANGED <<streamVars, ragVars, appVars>>

\* cosineSimilarity(a, b)
CallCosineSimilarity(a, b) ==
    /\ call = NoCall
    /\ call' = [NoCall EXCEPT !.fn = "cosineSimilarity", !.a = a, !.b = b,
                              !.score = cosineSimilarity(a, b)]
    /\ UNCHANGED <<streamVars, ragVars, appVars>>

\* most roots in one drawn list, and the lists of roots drawn: every path of
\* the file system and one that does not exist
MaxRoots == 2
RootLists ==
    UNION { [1..n -> DOMAIN FileSystem \cup {"/missing"}] : n \in 0..MaxRoots }

\* `for (const source of sources)` of rag-index over the roots: collectFiles
\* of each root into one list
CallCollectFiles(roots) ==
    /\ call = NoCall
    /\ call' = [NoCall EXCEPT !.fn = "collectFiles", !.roots = roots,
                              !.files = CollectSources([k \in 1..Len(roots) |->
                                                           [path |-> roots[k]]], <<>>)]
    /\ UNCHANGED <<streamVars, ragVars, appVars>>

\* PromptEngineer.getTaskConfig: the number of few-shot examples of the
\* configuration looked up under the lower-cased task type, the default
\* configuration when there is none
ConfiguredTasks ==
    {"summarization", "classification", "generation", "translation", "extraction",
     "brainstorming", "default"}
ExamplesOf(taskType) ==
    LET key == IF toLowerCase(taskType) \in ConfiguredTasks
               THEN toLowerCase(taskType) ELSE "default"
    IN  IF key \in {"summarization", "classification", "extraction"} THEN 1 ELSE 0

\* scores are counted in hundredths: 50 is 0.5, 100 is 1.0
BaseScore == 50
SpecificTaskBonus == 20
ConstraintsBonus == 20
ExamplesBonus == 5
FullScore == 100

confidenceScoreConstraintsUncounted(taskType, constraints) ==
    Min(BaseScore
          + (IF taskType # "default" THEN SpecificTaskBonus ELSE 0)
          + (IF ExamplesOf(taskType) > 0 THEN ExamplesBonus ELSE 0),
        FullScore)

\* confidence_score of PromptEngineer.generatePrompt
confidenceScore(taskType, constraints) ==
    LET hasConstraints == Len(constraints) > 0
        hasExamples    == ExamplesOf(taskType) > 0
        isSpecificTask == taskType # "default"
    IN  Min(BaseScore
              + (IF isSpecificTask THEN SpecificTaskBonus ELSE 0)
              + (IF hasConstraints THEN ConstraintsBonus ELSE 0)
              + (IF hasExamples THEN ExamplesBonus ELSE 0),
            FullScore)

\* task types and constraint lists passed to generatePrompt
MaxConstraints == 2
TaskTypes ==
    ConfiguredTasks \cup {"Default", "Extraction", "poetry"}
ConstraintLists ==
    UNION { [1..n -> {"Use strict tone", "Output JSON only"}] : n \in 0..MaxConstraints }

\* PromptEngineer.generatePrompt(input): the confidence_score of its result
CallGeneratePrompt(taskType, constraints) ==
    /\ call = NoCall
    /\ call' = [NoCall EXCEPT !.fn = "generatePrompt", !.task_type = taskType,
                              !.constraints = constraints,
                              !.confidence_score = confidenceScore(taskType, constraints)]
    /\ UNCHANGED <<streamVars, ragVars, appVars>>

\* arguments are drawn only while no call has been made
Drawn(arguments) ==
    IF call = NoCall THEN arguments ELSE {}

HelperNext ==
    \/ \E text \in Drawn(Texts) : CallChunkText(text)
    \/ \E text \in Drawn(SourceSizedTexts) : CallChunkTextInSource(text)
    \/ \E a \in Drawn(Vectors), b \in Drawn(Vectors) : CallCosineSimilarity(a, b)
    \/ \E roots \in Drawn(RootLists) : CallCollectFiles(roots)
    \/ \E taskType \in Drawn(TaskTypes), constraints \in Drawn(ConstraintLists) :
          CallGeneratePrompt(taskType, constraints)

(***************************************************************************)
(* The while loop of chunkText, one iteration at a time.                   *)
(***************************************************************************)

ChunkIterationNoBudget(st) ==
    IF ~(st.start < Len(st.cleaned)) THEN [st EXCEPT !.pc = "returned"]
    ELSE LET end    == Min(st.start + st.size, Len(st.cleaned))
             chunk  == trim(SubSeq(st.cleaned, st.start + 1, end))
             pushed == IF chunk # "" THEN Append(st.chunks, chunk) ELSE st.chunks
             done   == [st EXCEPT !.chunks = pushed, !.iterations = @ + 1]
         IN  IF end >= Len(st.cleaned) THEN [done EXCEPT !.pc = "returned"]
             ELSE [done EXCEPT !.start = Max(0, end - st.overlap)]

\* one pass through `while (start < cleaned.length) { ... }`: st.start is
\* 0-based, st.chunks what has been pushed, st.iterations the bodies run
ChunkIteration(st) ==
    IF ~(st.start < Len(st.cleaned)) THEN [st EXCEPT !.pc = "returned"]
    ELSE LET end    == Min(st.start + st.size, Len(st.cleaned))
             chunk  == trim(SubSeq(st.cleaned, st.start + 1, end))
             pushed == IF chunk # "" THEN Append(st.chunks, chunk) ELSE st.chunks
             done   == [st EXCEPT !.chunks = pushed, !.iterations = @ + 1]
             moved  == [done EXCEPT !.start = Max(0, end - st.overlap)]
         IN  IF end >= Len(st.cleaned) THEN [done EXCEPT !.pc = "returned"]
             ELSE IF Len(pushed) >= st.max THEN [moved EXCEPT !.pc = "returned"]
             ELSE moved

\* chunkText(text) up to the loop: an empty cleaned text returns at once
EnterChunkText(text, size, overlap, max) ==
    /\ call = NoCall
    /\ LET cleaned == trim(ReplaceCRLF(text))
       IN  call' = [fn |-> "chunkText:while", text |-> text, cleaned |-> cleaned,
                    start |-> 0, chunks |-> <<>>, iterations |-> 0,
                    size |-> size, overlap |-> overlap, max |-> max,
                    pc |-> IF cleaned = "" THEN "returned" ELSE "loop"]
    /\ UNCHANGED <<streamVars, ragVars, appVars>>

\* the loop of the call in progress runs once more, or is left
ChunkTextIteration ==
    /\ call.fn = "chunkText:while"
    /\ call.pc = "loop"
    /\ call' = ChunkIteration(call)
    /\ UNCHANGED <<streamVars, ragVars, appVars>>

LoopNext ==
    \/ \E text \in Drawn(Texts) :
          EnterChunkText(text, chunkSize, chunkOverlap, maxChunks)
    \/ \E text \in Drawn(SourceSizedTexts) :
          EnterChunkText(text, ChunkSizeInSource, ChunkOverlapInSource, MaxChunksInSource)
    \/ ChunkTextIteration

\* what rag-index-info returns for the value read from the store
IndexInfo(existing) ==
    IF existing = NoIndex
    THEN [count |-> 0, indexedAt |-> NullTime, embeddingModel |-> Null]
    ELSE [count          |-> Len(existing.entries),
          indexedAt      |-> existing.indexedAt,
          embeddingModel |-> existing.embeddingModel]

\* ipcMain.handle('rag-index-info'): the value it returned is kept in call
RagIndexInfo ==
    /\ call' = [NoCall EXCEPT !.fn = "rag-index-info", !.info = IndexInfo(store)]
    /\ UNCHANGED <<streamVars, ragVars, appVars>>

\* one build and one query over the small inputs, with rag-index-info
InfoNext ==
    \/ \E payload \in IndexPayloads : RagIndex(1, payload)
    \/ BuildFile(1)
    \/ BuildEmbedOk(1)
    \/ BuildEmbedFail(1)
    \/ RagClearIndex
    \/ \E payload \in QueryPayloads : RagQuery(1, payload)
    \/ QueryEmbedOk(1)
    \/ QueryEmbedFail(1)
    \/ RagIndexInfo

(***************************************************************************)
(* The renderer: the store's chat actions (useAppStore), the handlers of   *)
(* ChatInput and the stream listeners App registers.  The main process     *)
(* answers a streamMessage with stream-chunk events and one terminal       *)
(* event; buttons that send are disabled while state.streaming is set.     *)
(***************************************************************************)

\* chats, chat turns and deltas of one stream that are followed
MaxChats == 2
MaxTurns == 1
MaxDeltas == 2

NoChat == 0

Message(role, content) == [role |-> role, content |-> content]
Chat(id) == [id |-> id, messages |-> <<>>]

ChatIdsOf(chs) == { chs[k].id : k \in 1..Len(chs) }

\* state.chats.find((c) => c.id === id), then chat.messages.push(message)
Push(chs, id, message) ==
    [k \in 1..Len(chs) |->
        IF chs[k].id = id THEN [chs[k] EXCEPT !.messages = Append(@, message)] ELSE chs[k]]

NoTurn ==
    [n |-> 0, phase |-> "none", chat |-> NoChat, at |-> 0, disturbed |-> FALSE]

NoSend ==
    [calls |-> <<>>, dispatched |-> <<>>, inflight |-> 0]

AppInit ==
    /\ chats = <<>>
    /\ currentChatId = NoChat
    /\ streaming = FALSE
    /\ nextId = 1
    /\ relay = [open |-> FALSE, emitted |-> 0]
    /\ turn = NoTurn
    /\ send = NoSend

\* the chat sendMessage writes to: the current one, or a new one
TargetChatId == IF currentChatId = NoChat THEN nextId ELSE currentChatId

\* state.chats after sendMessage(content, role)
ChatsAfterSend(content, role) ==
    LET withTarget == IF currentChatId = NoChat THEN Append(chats, Chat(nextId)) ELSE chats
        pushed     == Push(withTarget, TargetChatId, Message(role, content))
    IN  IF role = "user"
        THEN Push(pushed, TargetChatId, Message("assistant", ""))
        ELSE pushed

\* where the assistant placeholder of a turn lies in the given chats
PlaceholderAt(chs, id) ==
    LET found == { k \in 1..Len(chs) : chs[k].id = id }
    IN  IF found = {} THEN 0 ELSE Len(chs[CHOOSE k \in found : TRUE].messages)

\* sendMessage(content, 'user'): the message and the assistant placeholder
\* are pushed, streaming is set and the stream is requested; engineered is
\* the assistant message handleEngineer adds once generatePrompt resolved,
\* which is before any stream event is delivered
StartTurn(content, engineered) ==
    LET sent  == ChatsAfterSend(content, "user")
        after == IF engineered = <<>> THEN sent
                 ELSE Push(sent, TargetChatId, Message("assistant", engineered[1]))
    IN  /\ turn.n < MaxTurns
        /\ currentChatId = NoChat => nextId <= MaxChats
        /\ chats' = after
        /\ currentChatId' = TargetChatId
        /\ nextId' = IF currentChatId = NoChat THEN nextId + 1 ELSE nextId
        /\ streaming' = TRUE
        /\ relay' = [open |-> TRUE, emitted |-> 0]
        /\ turn' = [n |-> turn.n + 1, phase |-> "open", chat |-> TargetChatId,
                    at |-> PlaceholderAt(sent, TargetChatId),
                    disturbed |-> engineered # <<>>]
        /\ UNCHANGED <<send, streamVars, ragVars, helperVars>>

\* ChatInput.handleDirectChat (and ChatWindow.handleRun): sendMessage(input, 'user')
HandleDirectChat(content) ==
    /\ ~streaming
    /\ StartTurn(content, <<>>)

\* ChatInput.handleEngineer: addMessage of the user's input, which is
\* sendMessage(input, 'user'), then addMessage of the engineered prompt as
\* an assistant message
HandleEngineer(content) ==
    /\ ~streaming
    /\ StartTurn(content, <<"### Engineered Prompt">>)

\* a turn is disturbed when the current chat changes or a message is added
\* while its stream runs
Disturbed(current) ==
    IF turn.phase = "open" /\ current # currentChatId
    THEN [turn EXCEPT !.disturbed = TRUE]
    ELSE turn

\* selectChat(id): a chat of the sidebar is clicked
SelectChat(id) ==
    /\ id \in ChatIdsOf(chats)
    /\ currentChatId' = id
    /\ turn' = Disturbed(id)
    /\ UNCHANGED <<chats, streaming, nextId, relay, send, streamVars, ragVars, helperVars>>

\* createChat(): the new chat becomes the current one
CreateChat ==
    /\ nextId <= MaxChats
    /\ chats' = Append(chats, Chat(nextId))
    /\ currentChatId' = nextId
    /\ nextId' = nextId + 1
    /\ turn' = Disturbed(nextId)
    /\ UNCHANGED <<streaming, relay, send, streamVars, ragVars, helperVars>>

DeleteChatKeepsCurrent(id) ==
    /\ id \in ChatIdsOf(chats)
    /\ chats' = SelectSeq(chats, LAMBDA c : c.id # id)
    /\ turn' = Disturbed(currentChatId)
    /\ UNCHANGED <<currentChatId, streaming, nextId, relay, send, streamVars, ragVars, helperVars>>

\* deleteChat(id)
DeleteChat(id) ==
    /\ id \in ChatIdsOf(chats)
    /\ chats' = SelectSeq(chats, LAMBDA c : c.id # id)
    /\ currentChatId' = IF currentChatId = id THEN NoChat ELSE currentChatId
    /\ turn' = Disturbed(currentChatId')
    /\ UNCHANGED <<streaming, nextId, relay, send, streamVars, ragVars, helperVars>>

appendLastMessageOverwrites(chs, current, chunk) ==
    [k \in 1..Len(chs) |->
        LET n == Len(chs[k].messages)
        IN  IF chs[k].id = current /\ n > 0 /\ chs[k].messages[n].role = "assistant"
            THEN [chs[k] EXCEPT !.messages[n].content = chunk]
            ELSE chs[k]]

\* appendLastMessage(chunk): the last message of the current chat grows by
\* chunk when it is an assistant message
appendLastMessage(chs, current, chunk) ==
    [k \in 1..Len(chs) |->
        LET n == Len(chs[k].messages)
        IN  IF chs[k].id = current /\ n > 0 /\ chs[k].messages[n].role = "assistant"
            THEN [chs[k] EXCEPT !.messages[n].content = @ \o chunk]
            ELSE chs[k]]

\* the k-th delta the main process sends for a stream
DeltaAt(k) == SubSeq("abcdefgh", k, k)

\* a stream-chunk event arrives: App's listener calls appendLastMessage
StreamChunk ==
    /\ relay.open
    /\ relay.emitted < MaxDeltas
    /\ relay' = [relay EXCEPT !.emitted = @ + 1]
    /\ chats' = appendLastMessage(chats, currentChatId, DeltaAt(relay.emitted + 1))
    /\ UNCHANGED <<currentChatId, streaming, nextId, turn, send, streamVars, ragVars, helperVars>>

\* stream-end arrives: setStreaming(false)
StreamEnd ==
    /\ relay.open
    /\ relay' = [relay EXCEPT !.open = FALSE]
    /\ streaming' = FALSE
    /\ turn' = [turn EXCEPT !.phase = "ended"]
    /\ UNCHANGED <<chats, currentChatId, nextId, send, streamVars, ragVars, helperVars>>

\* stream-error arrives: the error text is appended, then setStreaming(false)
StreamError ==
    /\ relay.open
    /\ relay' = [relay EXCEPT !.open = FALSE]
    /\ chats' = appendLastMessage(chats, currentChatId, "\n**Error:** failed")
    /\ streaming' = FALSE
    /\ turn' = [turn EXCEPT !.phase = "failed"]
    /\ UNCHANGED <<currentChatId, nextId, send, streamVars, ragVars, helperVars>>

AppNext ==
    \/ HandleDirectChat("q")
    \/ HandleEngineer("q")
    \/ \E id \in 1..MaxChats : SelectChat(id)
    \/ CreateChat
    \/ \E id \in 1..MaxChats : DeleteChat(id)
    \/ StreamChunk
    \/ StreamEnd
    \/ StreamError

(***************************************************************************)
(* sendMessage with its RAG lookup followed: the call returns to the       *)
(* handler at `await queryRag` and requests the stream once the lookup     *)
(* has settled.  Streams are counted, not assumed to be one at a time.     *)
(* Their stream-chunk events only change message contents (appendLast-     *)
(* Message, followed in AppSpec) and are left out here.                    *)
(***************************************************************************)

\* sendMessage('user') calls that are followed
MaxSends == 2

\* state.rag as sendMessage reads it: enabled, and how many sources are listed
RagSettings ==
    { [enabled |-> e, sources |-> n] : e \in BOOLEAN, n \in 0..1 }

\* how the promise of window.electronAPI.queryRag settles: with results, with
\* an empty result list, with an error value, or by rejecting
RagOutcomes == {"results", "empty", "error", "rejects"}

\* if (rag.enabled && rag.sources.length > 0)
UsesRag(rag) ==
    rag.enabled /\ rag.sources > 0

\* window.electronAPI.streamMessage(...) for call k; context tells whether
\* the messages start with the RAG context system message
Dispatch(s, k, context) ==
    [s EXCEPT !.dispatched = Append(@, [of |-> k, context |-> context]),
              !.inflight = @ + 1]

\* lastMsg.sources = ragResults, when the last message of the target chat
\* is an assistant message
WithSources(chs, id) ==
    [c \in 1..Len(chs) |->
        LET n == Len(chs[c].messages)
        IN  IF chs[c].id = id /\ n > 0 /\ chs[c].messages[n].role = "assistant"
            THEN [chs[c] EXCEPT !.messages[n] =
                      [role |-> @.role, content |-> @.content, sources |-> TRUE]]
            ELSE chs[c]]

\* sendMessage(content, 'user') up to its first await or, without a RAG
\* lookup, to its end; engineered is the assistant message handleEngineer
\* adds with sendMessage(..., 'assistant') once generatePrompt resolved,
\* which is before the lookup settles and before any stream event
SendMessageUser(content, rag, engineered) ==
    LET sent  == ChatsAfterSend(content, "user")
        after == IF engineered = <<>> THEN sent
                 ELSE Push(sent, TargetChatId, Message("assistant", engineered[1]))
        k     == Len(send.calls) + 1
        this  == [chat |-> TargetChatId, at |-> PlaceholderAt(sent, TargetChatId),
                  rag |-> rag,
                  outcome |-> IF UsesRag(rag) THEN "pending" ELSE "none"]
        noted == [send EXCEPT !.calls = Append(@, this)]
    IN  /\ Len(send.calls) < MaxSends
        /\ currentChatId = NoChat => nextId <= MaxChats
        /\ chats' = after
        /\ currentChatId' = TargetChatId
        /\ nextId' = IF currentChatId = NoChat THEN nextId + 1 ELSE nextId
        /\ streaming' = TRUE
        /\ send' = IF UsesRag(rag) THEN noted ELSE Dispatch(noted, k, FALSE)
        /\ UNCHANGED <<relay, turn, streamVars, ragVars, helperVars>>

handleDirectChatUnguarded(content, rag) ==
    SendMessageUser(content, rag, <<>>)

\* ChatInput.handleDirectChat, and ChatWindow.handleRun behind its button
\* that is disabled while streaming
handleDirectChat(content, rag) ==
    /\ ~streaming
    /\ SendMessageUser(content, rag, <<>>)

\* ChatInput.handleEngineer
handleEngineer(content, rag) ==
    /\ ~streaming
    /\ SendMessageUser(content, rag, <<"### Engineered Prompt">>)

QueryRagRejectAborts(k, outcome) ==
    /\ k \in 1..Len(send.calls)
    /\ send.calls[k].outcome = "pending"
    /\ chats' = IF outcome = "results" THEN WithSources(chats, send.calls[k].chat) ELSE chats
    /\ send' = IF outcome = "rejects"
               THEN [send EXCEPT !.calls[k].outcome = outcome]
               ELSE Dispatch([send EXCEPT !.calls[k].outcome = outcome], k, outcome = "results")
    /\ UNCHANGED <<currentChatId, streaming, nextId, relay, turn, streamVars, ragVars, helperVars>>

\* the queryRag promise of call k settles and sendMessage runs to its end:
\* sources on the last message and a context message only for a non-empty
\* result list, then streamMessage
QueryRagSettles(k, outcome) ==
    /\ k \in 1..Len(send.calls)
    /\ send.calls[k].outcome = "pending"
    /\ chats' = IF outcome = "results" THEN WithSources(chats, send.calls[k].chat) ELSE chats
    /\ send' = Dispatch([send EXCEPT !.calls[k].outcome = outcome], k, outcome = "results")
    /\ UNCHANGED <<currentChatId, streaming, nextId, relay, turn, streamVars, ragVars, helperVars>>

\* onStreamEnd: the stream-end of a stream in flight arrives
onStreamEnd ==
    /\ send.inflight > 0
    /\ send' = [send EXCEPT !.inflight = @ - 1]
    /\ streaming' = FALSE
    /\ UNCHANGED <<chats, currentChatId, nextId, relay, turn, streamVars, ragVars, helperVars>>

onStreamErrorKeepsFlag ==
    /\ send.inflight > 0
    /\ send' = [send EXCEPT !.inflight = @ - 1]
    /\ chats' = appendLastMessage(chats, currentChatId, "\n**Error:** failed")
    /\ UNCHANGED <<currentChatId, streaming, nextId, relay, turn, streamVars, ragVars, helperVars>>

\* onStreamError: the stream-error of a stream in flight arrives
onStreamError ==
    /\ send.inflight > 0
    /\ send' = [send EXCEPT !.inflight = @ - 1]
    /\ chats' = appendLastMessage(chats, currentChatId, "\n**Error:** failed")
    /\ streaming' = FALSE
    /\ UNCHANGED <<currentChatId, nextId, relay, turn, streamVars, ragVars, helperVars>>

SendNext ==
    \/ \E rag \in RagSettings : handleDirectChat("q", rag)
    \/ \E rag \in RagSettings : handleEngineer("q", rag)
    \/ \E k \in 1..MaxSends, outcome \in RagOutcomes : QueryRagSettles(k, outcome)
    \/ onStreamEnd
    \/ onStreamError

Init == StreamInit /\ RagInit /\ HelperInit /\ AppInit

Next ==
    \/ \E payload \in Payloads : StreamMessage(payload)
    \/ FetchRejects
    \/ \E r \in OkResponses(variant) \cup ErrorResponses : FetchResolves(r)
    \/ \E k \in 1..Len(response.body) : Read(k)
    \/ ReadDone
    \/ ReadRejects

Spec == Init /\ [][Next]_vars

RagSpec == Init /\ [][RagNext]_vars

CorpusSpec == Init /\ [][CorpusNext]_vars

HelperSpec == Init /\ [][HelperNext]_vars

InfoSpec == Init /\ [][InfoNext]_vars

AppSpec == Init /\ [][AppNext]_vars

LoopSpec == Init /\ [][LoopNext]_vars

BuildSpec == Init /\ [][BuildNext]_vars

SendSpec == Init /\ [][SendNext]_vars

\* every awaited RAG lookup settles and every stream in flight delivers its
\* stream-end or stream-error
SendFairSpec ==
    /\ SendSpec
    /\ WF_vars(\E k \in 1..MaxSends, outcome \in RagOutcomes : QueryRagSettles(k, outcome))
    /\ WF_vars(onStreamEnd \/ onStreamError)

(***************************************************************************)
(* Properties of the stream relay (checked under Spec).                    *)
(***************************************************************************)

ChunkEvents(evs) ==
    SelectSeq(evs, LAMBDA e : e[1] = "stream-chunk")

Terminals(evs) ==
    { i \in 1..Len(evs) : IsTerminal(evs[i]) }

Contains(s, sub) ==
    \E i \in 1..(Len(s) - Len(sub) + 1) : SubSeq(s, i, i + Len(sub) - 1) = sub

\* the connection closed normally and the handler returned
Closed ==
    pc = "done" /\ fault = "none"

\* the lines of a body that are complete when the connection closes: the
\* SSE handler needs the terminating newline, the NDJSON handler does not
BodyLines(v, body) ==
    IF v = "api"
    THEN Front(split(body))
    ELSE SelectSeq(split(body), LAMBDA line : line # "")

RECURSIVE DeltasOfLines(_, _)
\* the deltas carried by a list of lines, each line taken on its own
DeltasOfLines(v, lines) ==
    IF lines = <<>> THEN <<>>
    ELSE (IF v = "api" THEN ApiLineEvents(Head(lines)) ELSE OllamaLineEvents(Head(lines)))
         \o DeltasOfLines(v, Tail(lines))

\* C1: NDJSON stream: however the body is split into reads, the events are
\* those of the whole body arriving in a single read, then one stream-end.
C1_OllamaSplitInvariant ==
    (variant = "ollama" /\ Closed) =>
        events = OllamaOnRead(response.body) \o <<End>>

\* C2: SSE stream: however the body is split into reads, the deltas sent after
\* any prefix of the body are those of that prefix arriving in a single read,
\* and the buffer holds the same trailing partial line.
C2_ApiSplitInvariant ==
    (variant = "api" /\ pc \in {"reading", "done"} /\ response.ok) =>
        LET single == ApiOnRead("", SubSeq(response.body, 1, pos))
        IN  /\ ChunkEvents(events) = single.events
            /\ pc = "reading" => buffer = single.buffer

C2_Witness ==
    /\ variant = "api"
    /\ Closed
    /\ midLineRead
    /\ Len(ChunkEvents(events)) >= 2

\* C3: a stream-message whose handler has returned has sent exactly one
\* terminal event (stream-end or stream-error, never both), nothing follows a
\* terminal event, and a transport failure while reading the body gives
\* stream-error and no stream-end.
C3_OneTerminalEvent ==
    /\ Cardinality(Terminals(events)) <= 1
    /\ \A i \in Terminals(events) : i = Len(events)
    /\ pc = "done" <=> Cardinality(Terminals(events)) = 1
    /\ fault = "read-reject" =>
          /\ events # <<>>
          /\ Last(events)[1] = "stream-error"
          /\ \A i \in 1..Len(events) : events[i] # End

C3_Witness ==
    /\ fault = "read-reject"
    /\ Len(ChunkEvents(events)) >= 1
    /\ Last(events) = Error("terminated")

\* C4: SSE stream: once a `data: [DONE]` line has been processed no further
\* delta is sent.
C4_DoneIsTerminal ==
    [][doneSeen => ChunkEvents(events') = ChunkEvents(events)]_vars

\* C5: the SSE body `data: {..."Yo"...}\n\ndata: [DONE]\n\n` followed by close
\* gives exactly stream-chunk "Yo" then stream-end.
C5_SseScenario ==
    (variant = "api" /\ Closed /\ response.body = SseScenario) =>
        events = <<Chunk("Yo"), End>>

C5_Witness ==
    /\ variant = "api"
    /\ Closed
    /\ response.body = SseScenario
    /\ midLineRead

\* C6: a non-2xx initial response gives exactly one stream-error that carries
\* the status and the error body, and no stream-chunk or stream-end.
C6_Non2xxIsError ==
    response.status \in ErrorStatuses =>
        /\ pc = "done"
        /\ Len(events) = 1
        /\ events[1][1] = "stream-error"
        /\ Contains(events[1][2], ToString(response.status))
        /\ Contains(events[1][2], response.body)

C6_Witness ==
    /\ variant = "api"
    /\ response.status = 500
    /\ response.body = "model not found"
    /\ events = <<Error("API Error 500: model not found")>>

\* C7: a complete line that is malformed JSON or carries no delta sends
\* nothing, raises no stream-error and does not stop later lines: at close
\* the events are the deltas of the body's lines, each taken on its own, in
\* order (for NDJSON: when every line reached the parser whole).
C7_MalformedLinesSkipped ==
    /\ (response.ok /\ fault = "none") =>
          \A i \in 1..Len(events) : events[i][1] # "stream-error"
    /\ (Closed /\ (variant = "api" \/ ~midLineRead)) =>
          events = DeltasOfLines(variant, BodyLines(variant, response.body)) \o <<End>>

C7_Witness ==
    /\ variant = "ollama"
    /\ Closed
    /\ ~midLineRead
    /\ Contains(response.body, Malformed \o "\n")
    /\ events = <<Chunk("Hi"), Chunk("lo"), End>>

\* C8: NDJSON stream: stream-end has been sent exactly when the reader has
\* reported done; a done:true line does not end the stream.
C8_EndOnlyOnClose ==
    variant = "ollama" =>
        ((\E i \in 1..Len(events) : events[i] = End) <=> Closed)

C8_Witness ==
    /\ variant = "ollama"
    /\ pc = "reading"
    /\ response.body = OllamaHi \o "\n" \o OllamaDone \o "\n"
    /\ pos = Len(response.body)
    /\ events = <<Chunk("Hi")>>

(***************************************************************************)
(* Properties of the RAG index store (checked under RagSpec).              *)
(***************************************************************************)

\* the index value was written by a rag-index call that has returned, with
\* as many entries as that call reported
WrittenByCompletedBuild(index) ==
    \E b \in BuildIds :
        /\ builds[b].pc = "done"
        /\ builds[b].result.kind = "ok"
        /\ builds[b].result.indexedAt = index.indexedAt
        /\ builds[b].result.count = Len(index.entries)

\* every entry's vector is the one the index's recorded model gives its content
SingleModel(index) ==
    \A k \in 1..Len(index.entries) :
        index.entries[k].embedding = Embed(index.embeddingModel, index.entries[k].content)

\* C9: a rag-query ranks the one index value it read before its embedding
\* request, whatever is written meanwhile: that value is the complete output
\* of one build, all of one model, and every result is an entry of it scored
\* against the query embedded with that model.
C9_QuerySnapshot ==
    /\ store \notin {NoIndex, Sentinel} => WrittenByCompletedBuild(store)
    /\ \A q \in QueryIds :
          LET qs == queries[q]
              snapshot == qs.existing
          IN  snapshot # NoIndex =>
                /\ WrittenByCompletedBuild(snapshot)
                /\ SingleModel(snapshot)
                /\ (qs.pc = "done" /\ qs.result.kind = "ok") =>
                      /\ Len(qs.result.results) = Min(Limit(qs.topK), Len(snapshot.entries))
                      /\ \A n \in 1..Len(qs.result.results) :
                            \E k \in 1..Len(snapshot.entries) :
                                /\ qs.result.results[n].sourcePath = snapshot.entries[k].sourcePath
                                /\ qs.result.results[n].content = snapshot.entries[k].content
                                /\ qs.result.results[n].score =
                                      cosineSimilarity(Embed(snapshot.embeddingModel, qs.query),
                                                       snapshot.entries[k].embedding)

C9_Witness ==
    \E q \in QueryIds :
        /\ queries[q].pc = "done"
        /\ queries[q].overtaken
        /\ queries[q].result.kind = "ok"
        /\ Len(queries[q].result.results) >= 1
        /\ store \notin {NoIndex, Sentinel}
        /\ Len(store.entries) >= 1
        /\ store.embeddingModel # queries[q].existing.embeddingModel

\* C10: every entry of a non-empty persisted index carries the embedding of
\* its content under the model recorded in index.embeddingModel.
C10_EntriesMatchModel ==
    (store # NoIndex /\ Len(store.entries) > 0) =>
        /\ store.embeddingModel \in EmbeddingModels
        /\ SingleModel(store)

C10_Witness ==
    /\ store # NoIndex
    /\ Len(store.entries) = 2
    /\ store.embeddingModel = "other-model"
    /\ store.indexedAt = 2
    /\ \E q \in QueryIds :
          /\ queries[q].existing # NoIndex
          /\ queries[q].existing.embeddingModel = "nomic-embed-text"
          /\ Len(queries[q].existing.entries) >= 1

(***************************************************************************)
(* Properties of the index build and of the query handler.                 *)
(***************************************************************************)

\* C11: an embedding request that fails during rag-index is fatal to the
\* build: the handler ends with an error value and the persisted index stays
\* as it was.
C11_EmbeddingFailureFatal ==
    [][\A b \in BuildIds :
          BuildEmbedFail(b) =>
              /\ builds'[b].pc = "done"
              /\ builds'[b].result.kind = "error"
              /\ store' = store]_vars

\* the persisted index is absent or has no entries
EmptyOrAbsent(index) ==
    index = NoIndex \/ Len(index.entries) = 0

\* C12 as claimed: rag-query on an empty or absent index returns an empty
\* result list as a success, without an embedding request, for every query
\* text, topK and embeddingModel of the payload.
C12_EmptyIndexAnyPayload ==
    [][\A q \in QueryIds, payload \in CorpusQueryPayloads :
          (EmptyOrAbsent(store) /\ RagQuery(q, payload)) =>
              /\ queries'[q].pc = "done"
              /\ queries'[q].result = QueryResults(<<>>)]_vars

\* C12 as amended: rag-query with a non-empty query text on an empty or
\* absent index returns an empty result list as a success, without an
\* embedding request, for every topK and embeddingModel of the payload.
C12_EmptyIndexEmptyResult ==
    [][\A q \in QueryIds, payload \in CorpusQueryPayloads :
          (EmptyOrAbsent(store) /\ Truthy(payload.query) /\ RagQuery(q, payload)) =>
              /\ queries'[q].pc = "done"
              /\ queries'[q].result = QueryResults(<<>>)]_vars

\* a build left an index without entries and the query returned [] from it
C12_Witness ==
    /\ store \notin {NoIndex, Sentinel}
    /\ Len(store.entries) = 0
    /\ builds[1].pc = "done"
    /\ queries[1].pc = "done"
    /\ queries[1].result = QueryResults(<<>>)
    /\ queries[1].existing = NoIndex

\* C13: rag-query (a payload with a query text) with a caller-supplied model
\* that differs from the model of a non-empty index returns the
\* model-mismatch error and no results, without an embedding request.
C13_MismatchIsError ==
    [][\A q \in QueryIds, payload \in CorpusQueryPayloads :
          (/\ ~EmptyOrAbsent(store)
           /\ Truthy(payload.query)
           /\ Truthy(payload.embeddingModel)
           /\ payload.embeddingModel # store.embeddingModel
           /\ RagQuery(q, payload)) =>
              /\ queries'[q].pc = "done"
              /\ queries'[q].result =
                    QueryError("Embedding model mismatch (index: "
                               \o store.embeddingModel \o ").")]_vars

\* the index was built with "other-model" and the query ended in the mismatch error
C13_Witness ==
    /\ store # NoIndex
    /\ Len(store.entries) > 0
    /\ store.embeddingModel = "other-model"
    /\ queries[1].pc = "done"
    /\ queries[1].result =
          QueryError("Embedding model mismatch (index: other-model).")
    /\ queries[1].existing = NoIndex

\* a query that returned a ranking of the index it had read
Ranked(q) ==
    /\ queries[q].pc = "done"
    /\ queries[q].result.kind = "ok"
    /\ queries[q].existing # NoIndex

\* topK clamped to [1, 20], 5 when absent
ClampedTopK(topK) ==
    IF topK = <<>> THEN 5 ELSE Min(20, Max(1, topK[1]))

\* C14: the number of results of rag-query is min(n, clamp(topK, 1, 20)), with
\* topK 5 when absent, for an index of n entries.
C14_TopKClamped ==
    \A q \in QueryIds :
        Ranked(q) =>
            Len(queries[q].result.results) =
                Min(Len(queries[q].existing.entries), ClampedTopK(queries[q].topK))

\* the scores of the entries of the index read by query q, as fractions
EntryScores(q) ==
    [ k \in 1..Len(queries[q].existing.entries) |->
        cosineSimilarity(Embed(queries[q].model, queries[q].query),
                         queries[q].existing.entries[k].embedding) ]

Above(s, t) == s.num * t.den > t.num * s.den

\* the place of entry k in the stable descending order: behind every entry
\* of higher score and every earlier entry of equal score
RankOf(scores, k) ==
    1 + Cardinality({ j \in 1..Len(scores) : Above(scores[j], scores[k]) })
      + Cardinality({ j \in 1..(k - 1) :
                        ~Above(scores[j], scores[k]) /\ ~Above(scores[k], scores[j]) })

\* C15: for 1 <= topK <= 20 on a non-empty index of n entries, the results
\* are the first min(topK, n) entries of the stable descending sort by score.
C15_TopKOfStableSort ==
    \A q \in QueryIds :
        (Ranked(q) /\ queries[q].topK # <<>>
                   /\ queries[q].topK[1] >= 1 /\ queries[q].topK[1] <= 20) =>
            LET entries == queries[q].existing.entries
                results == queries[q].result.results
                scores  == EntryScores(q)
                m       == Min(queries[q].topK[1], Len(entries))
            IN  /\ Len(results) = m
                /\ \A i \in 1..m, j \in 1..m :
                      i < j => ~Above(results[j].score, results[i].score)
                /\ \A k \in 1..Len(entries) :
                      RankOf(scores, k) <= m =>
                          results[RankOf(scores, k)] =
                              [sourcePath |-> entries[k].sourcePath,
                               content    |-> entries[k].content,
                               score      |-> scores[k]]

\* topK = 3 over ten entries: three results, the first two of equal score,
\* the third not the third entry of the index
C15_Witness ==
    /\ Ranked(1)
    /\ queries[1].topK = <<3>>
    /\ Len(queries[1].existing.entries) = 10
    /\ Len(queries[1].result.results) = 3
    /\ queries[1].result.results[1].score = queries[1].result.results[2].score
    /\ queries[1].result.results[3].content # queries[1].existing.entries[3].content

\* C17: a persisted index has at most maxChunks entries; the budget is that
\* of the whole build, so once it is used up the build neither waits for
\* another embedding nor opens another file.
C17_ChunkBudget ==
    /\ store # NoIndex => Len(store.entries) <= maxChunks
    /\ \A b \in BuildIds :
          /\ Len(builds[b].entries) <= maxChunks
          /\ builds[b].pc \in {"file", "embedding"} => Len(builds[b].entries) < maxChunks

\* the budget ran out in the middle of the second file of a build
C17_Witness ==
    /\ store # NoIndex
    /\ Len(store.entries) = maxChunks
    /\ builds[1].pc = "done"
    /\ builds[1].result.count = maxChunks
    /\ store.entries[1].sourcePath = "/w/a.md"
    /\ store.entries[maxChunks].sourcePath = "/docs/long.md"
    /\ store.entries[maxChunks].chunkIndex < Len(chunkText(LongText)) - 1

(***************************************************************************)
(* Properties of cosineSimilarity and chunkText (checked under HelperSpec).*)
(***************************************************************************)

RECURSIVE DotProduct(_, _)
DotProduct(a, b) ==
    IF a = <<>> \/ b = <<>> THEN 0
    ELSE Head(a) * Head(b) + DotProduct(Tail(a), Tail(b))

CallSize == IF call.fn = "chunkTextInSource" THEN ChunkSizeInSource ELSE chunkSize
CallOverlap == IF call.fn = "chunkTextInSource" THEN ChunkOverlapInSource ELSE chunkOverlap
CallMax == IF call.fn = "chunkTextInSource" THEN MaxChunksInSource ELSE maxChunks
CallStep == CallSize - CallOverlap

ChunkCall == call.fn \in {"chunkText", "chunkTextInSource"}

\* the normalized text of the call: CRLF -> LF, trimmed
Cleaned == trim(ReplaceCRLF(call.text))

\* the number of windows over the normalized text
NumWindows(cleaned) ==
    IF Len(cleaned) = 0 THEN 0
    ELSE IF Len(cleaned) <= CallSize THEN 1
    ELSE ((Len(cleaned) - CallSize + CallStep - 1) \div CallStep) + 1

\* window j (from 0): it starts j * (size - overlap) characters into the text
WindowAt(cleaned, j) ==
    SubSeq(cleaned, j * CallStep + 1, Min(j * CallStep + CallSize, Len(cleaned)))

\* C18 as claimed: every chunk is non-empty, at most chunkSize long, and the
\* k-th chunk (from 0) is the window starting k * (chunkSize - chunkOverlap)
\* characters into the normalized text.
C18_KthChunkIsKthWindow ==
    ChunkCall =>
        LET cleaned == Cleaned
        IN  \A k \in 1..Len(call.chunks) :
                /\ call.chunks[k] # ""
                /\ Len(call.chunks[k]) <= CallSize
                /\ call.chunks[k] = trim(WindowAt(cleaned, k - 1))

\* the windows that are not all white space, trimmed, in order
KeptWindows(cleaned) ==
    SelectSeq([ j \in 1..NumWindows(cleaned) |-> trim(WindowAt(cleaned, j - 1)) ],
              LAMBDA w : w # "")

\* C18 as amended: every chunk is non-empty and at most chunkSize long, and
\* the chunks are, in order, the trimmed windows that are not all white
\* space (up to maxChunks of them), window j starting j * (chunkSize -
\* chunkOverlap) characters into the normalized text.
C18_ChunksAreKeptWindows ==
    ChunkCall =>
        /\ \A k \in 1..Len(call.chunks) :
              call.chunks[k] # "" /\ Len(call.chunks[k]) <= CallSize
        /\ LET kept == KeptWindows(Cleaned)
           IN  call.chunks = SubSeq(kept, 1, Min(CallMax, Len(kept)))

\* a window of white space only was dropped between two chunks
C18_Witness ==
    /\ call.fn = "chunkText"
    /\ call.text = "abc     ijk"
    /\ Len(call.chunks) = 2
    /\ call.chunks[2] = "ijk"
    /\ NumWindows(Cleaned) = 3

Prefix(s, n) == SubSeq(s, 1, n)
Suffix(s, n) == SubSeq(s, Len(s) - n + 1, Len(s))

\* chunks k and k+1 share exactly chunkOverlap characters
Overlapping(k) ==
    /\ Len(call.chunks[k]) >= CallOverlap
    /\ Len(call.chunks[k + 1]) >= CallOverlap
    /\ Suffix(call.chunks[k], CallOverlap) = Prefix(call.chunks[k + 1], CallOverlap)

NoBoundarySpace ==
    LET cleaned == Cleaned
    IN  \A j \in 1..NumWindows(cleaned) :
            trim(WindowAt(cleaned, j - 1)) = WindowAt(cleaned, j - 1)

Scenario2500 ==
    call.fn = "chunkTextInSource" /\ call.text = Text2500

\* C20 as claimed: 2500 characters without white space, chunkSize 1000 and
\* chunkOverlap 200 give three chunks of 1000, 1000 and 500 characters, each
\* consecutive pair overlapping by 200.
C20_Scenario500 ==
    Scenario2500 =>
        /\ Len(call.chunks) = 3
        /\ Len(call.chunks[1]) = 1000
        /\ Len(call.chunks[2]) = 1000
        /\ Len(call.chunks[3]) = 500
        /\ Suffix(call.chunks[1], 200) = Prefix(call.chunks[2], 200)
        /\ Suffix(call.chunks[2], 200) = Prefix(call.chunks[3], 200)

\* C20 as amended: the three chunks have 1000, 1000 and 900 characters (the
\* characters 1..1000, 801..1800 and 1601..2500 of the text), each
\* consecutive pair overlapping by 200.
C20_Scenario900 ==
    Scenario2500 =>
        /\ call.chunks = <<SubSeq(Text2500, 1, 1000), SubSeq(Text2500, 801, 1800),
                           SubSeq(Text2500, 1601, 2500)>>
        /\ Len(call.chunks[3]) = 900
        /\ Suffix(call.chunks[1], 200) = Prefix(call.chunks[2], 200)
        /\ Suffix(call.chunks[2], 200) = Prefix(call.chunks[3], 200)

C20_Witness ==
    /\ Scenario2500
    /\ Len(call.text) = 2500
    /\ Len(call.chunks) = 3

(***************************************************************************)
(* Normalization and chunking (checked under HelperSpec).                  *)
(***************************************************************************)

\* N(t): every CRLF replaced by LF, then trimmed
Normalized(t) == trim(ReplaceCRLF(t))

\* C21: for every text t, chunkText(N(t)) equals chunkText(t) and
\* N(N(t)) = N(t), where N replaces every CRLF with LF and then trims
\* (texts containing CR CR LF included).
C21_NormalizationIdempotent ==
    call.fn = "chunkText" =>
        /\ Normalized(Normalized(call.text)) = Normalized(call.text)
        /\ chunkText(Normalized(call.text)) = call.chunks

(***************************************************************************)
(* Collection of files (checked under HelperSpec and CorpusSpec).          *)
(***************************************************************************)

\* p is d or lies below d
Under(d, p) ==
    p = d \/ (Len(p) > Len(d) /\ SubSeq(p, 1, Len(d) + 1) = d \o "/")

\* the directories from root (inclusive) down to p
DirsDownTo(root, p) ==
    { d \in DOMAIN FileSystem :
        FileSystem[d].type = "dir" /\ Under(root, d) /\ Under(d, p) /\ d # p }

\* the regular files reachable from root with an allowed extension and no
\* ignored directory from root down to them; a directory that cannot be
\* listed leads nowhere
EligibleFiles(root) ==
    { p \in DOMAIN FileSystem :
        /\ FileSystem[p].type = "file"
        /\ Under(root, p)
        /\ toLowerCase(extname(p)) \in allowedExtensions
        /\ \A d \in DirsDownTo(root, p) :
              basename(d) \notin ignoredFolders /\ FileSystem[d].readable }

\* the entry of directory d through which p is reached, and its place in
\* the listing of d
EntryTowards(d, p) ==
    LET rest   == SubSeq(p, Len(d) + 2, Len(p))
        slash  == { i \in 1..Len(rest) : SubSeq(rest, i, i) = "/" }
        name   == IF slash = {} THEN rest
                  ELSE SubSeq(rest, 1, (CHOOSE i \in slash : \A j \in slash : i <= j) - 1)
    IN  CHOOSE k \in 1..Len(FileSystem[d].entries) : FileSystem[d].entries[k] = name

\* p is visited before q by a depth-first walk in listing order
VisitedBefore(p, q) ==
    LET common == { d \in DOMAIN FileSystem :
                      FileSystem[d].type = "dir" /\ Under(d, p) /\ Under(d, q)
                      /\ d # p /\ d # q }
        fork   == CHOOSE d \in common : \A e \in common : Len(e) <= Len(d)
    IN  p # q /\ common # {} /\ EntryTowards(fork, p) < EntryTowards(fork, q)

\* the eligible files of one root in traversal order
InTraversalOrder(root) ==
    LET files == EligibleFiles(root)
    IN  [k \in 1..Cardinality(files) |->
            CHOOSE p \in files :
                Cardinality({ q \in files : VisitedBefore(q, p) }) = k - 1]

RECURSIVE ExpectedFiles(_)
\* the same over a list of roots
ExpectedFiles(roots) ==
    IF roots = <<>> THEN <<>>
    ELSE InTraversalOrder(Head(roots)) \o ExpectedFiles(Tail(roots))

\* C22: collectFiles over a list of roots returns, in traversal order,
\* exactly the regular files reachable from the roots whose lower-cased
\* extension is allowed and that have no ignored directory from the root
\* (inclusive) down to them; an ignored directory given as a root yields
\* nothing.
C22_CollectedFiles ==
    call.fn = "collectFiles" =>
        /\ call.files = ExpectedFiles(call.roots)
        /\ \A k \in 1..Len(call.roots) :
              basename(call.roots[k]) \in ignoredFolders
              /\ call.roots[k] \in DOMAIN FileSystem
              /\ FileSystem[call.roots[k]].type = "dir"
                  => \A f \in 1..Len(call.files) :
                        ~Under(call.roots[k], call.files[f])
                        \/ \E j \in 1..Len(call.roots) :
                              j # k /\ Under(call.roots[j], call.files[f])

C22_Witness ==
    /\ call.fn = "collectFiles"
    /\ call.roots = <<"/w/node_modules", "/w">>
    /\ call.files = <<"/w/a.md", "/w/src/B.TXT", "/w/src/bad.pdf", "/w/src/big.txt",
                      "/w/src/gone.py", "/w/src/doc.pdf", "/w/bin.json", "/w/notes.yml">>

\* stat fails on the root, or a directory at or below it cannot be listed
IOFailureUnder(root) ==
    \/ root \notin DOMAIN FileSystem
    \/ \E d \in DOMAIN FileSystem :
          FileSystem[d].type = "dir" /\ Under(root, d) /\ ~FileSystem[d].readable

PathsOf(sources) ==
    [k \in 1..Len(sources) |-> sources[k].path]

\* C23: an I/O failure on one root or one nested directory does not abort
\* collection: the build goes on over every eligible file of the other
\* roots and of the directories that can be listed, and rag-index returns
\* no error because of it.
C23_FailureDoesNotAbort ==
    [][\A payload \in CorpusIndexPayloads :
          (/\ builds[1].pc = "idle"
           /\ builds'[1].pc # "idle"
           /\ RagIndex(1, payload)
           /\ Truthy(payload.embeddingModel)
           /\ \E k \in 1..Len(payload.sources) : IOFailureUnder(payload.sources[k].path))
          => /\ builds'[1].result.kind # "error"
             /\ IF builds'[1].pc = "done"
                THEN ExpectedFiles(PathsOf(payload.sources)) = <<>>
                     /\ builds'[1].result.kind = "ok"
                ELSE builds'[1].files = ExpectedFiles(PathsOf(payload.sources))]_vars

\* the build over /w went past the directory that cannot be listed and
\* returned an index holding files listed before and after it
C23_Witness ==
    /\ builds[1].pc = "done"
    /\ builds[1].result.kind = "ok"
    /\ store # NoIndex
    /\ \E k \in 1..Len(store.entries) : store.entries[k].sourcePath = "/w/a.md"
    /\ \E k \in 1..Len(store.entries) : store.entries[k].sourcePath = "/w/notes.yml"
    /\ \A k \in 1..Len(store.entries) : store.entries[k].sourcePath # "/w/locked/secret.md"

(***************************************************************************)
(* The cleared index (checked under InfoSpec).                             *)
(***************************************************************************)

ClearedIndex == [entries |-> <<>>, indexedAt |-> 0, embeddingModel |-> Null]
ZeroInfo == [count |-> 0, indexedAt |-> 0, embeddingModel |-> Null]

BuildCompletes ==
    \E b \in BuildIds : builds[b].pc # "done" /\ builds'[b].pc = "done"

\* C24: rag-clear-index leaves the persisted index as {entries: [],
\* indexedAt: null, embeddingModel: null} and only a completing build
\* changes it; on that index rag-index-info returns count 0, indexedAt null,
\* embeddingModel null and rag-query (of a query with text) returns an empty
\* result list for every model; rag-index-info on a store never written
\* returns the same values.
C24_ClearedIndex ==
    [][/\ (store' # store /\ ~BuildCompletes) => store' = ClearedIndex
       /\ (store = ClearedIndex /\ store' # store) => BuildCompletes
       /\ (RagIndexInfo /\ store \in {ClearedIndex, NoIndex}) => call'.info = ZeroInfo
       /\ \A payload \in QueryPayloads :
             (RagQuery(1, payload) /\ Truthy(payload.query) /\ store = ClearedIndex)
             => queries'[1].result = QueryResults(<<>>)]_vars

\* an index of two entries was built, then cleared; rag-query and
\* rag-index-info answered on the cleared index
C24_Witness ==
    /\ builds[1].result.kind = "ok"
    /\ builds[1].result.count = 2
    /\ store = ClearedIndex
    /\ queries[1].result = QueryResults(<<>>)
    /\ call.fn = "rag-index-info"
    /\ call.info = ZeroInfo

(***************************************************************************)
(* What a completed build persists (checked under RagSpec and CorpusSpec). *)
(***************************************************************************)

\* the entry a build in state st pushes when its pending request resolves
PendingEntry(st) ==
    [id         |-> st.files[st.fileIdx] \o ":" \o ToString(st.i),
     sourcePath |-> st.files[st.fileIdx],
     chunkIndex |-> st.i,
     content    |-> st.chunks[st.i + 1],
     embedding  |-> Embed(st.model, st.chunks[st.i + 1])]

\* C25: a completed rag-index build replaces the persisted index wholly:
\* the persisted entries are exactly the entries the build produced (those
\* it held, with the one its last request brought when that resolved) and
\* embeddingModel is the build's model, also when the build produced no
\* entry.
C25_BuildReplacesIndex ==
    [][\A b \in BuildIds :
          /\ (builds[b].pc = "idle" /\ builds'[b].pc = "done"
                /\ builds'[b].result.kind = "ok")
             => \E payload \in IndexPayloads :
                   /\ RagIndex(b, payload)
                   /\ store' = [entries |-> <<>>,
                                indexedAt |-> builds'[b].result.indexedAt,
                                embeddingModel |-> payload.embeddingModel]
          /\ (builds[b].pc \in {"file", "embedding"} /\ builds'[b].pc = "done")
             => LET st == builds[b]
                IN  /\ store'.embeddingModel = st.model
                    /\ store'.indexedAt = builds'[b].result.indexedAt
                    /\ Len(store'.entries) = builds'[b].result.count
                    /\ \/ store'.entries = st.entries
                       \/ /\ BuildEmbedOk(b)
                          /\ store'.entries = Append(st.entries, PendingEntry(st))
                    /\ BuildEmbedFail(b) => store'.entries = st.entries
                    /\ BuildFile(b) => store'.entries = st.entries]_vars

\* an index of two entries was replaced by the empty output of a later
\* build of another model
C25_Witness ==
    /\ builds[1].result.kind = "ok"
    /\ builds[1].result.count = 2
    /\ builds[2].result.kind = "ok"
    /\ builds[2].result.count = 0
    /\ builds[1].result.indexedAt < builds[2].result.indexedAt
    /\ store = [entries |-> <<>>, indexedAt |-> builds[2].result.indexedAt,
                embeddingModel |-> "other-model"]

\* entries run file by file, chunkIndex 0, 1, 2, ... within each file, and
\* no file comes back after another one
FileByFile(entries) ==
    /\ entries # <<>> => entries[1].chunkIndex = 0
    /\ \A k \in 1..(Len(entries) - 1) :
          IF entries[k + 1].sourcePath = entries[k].sourcePath
          THEN entries[k + 1].chunkIndex = entries[k].chunkIndex + 1
          ELSE /\ entries[k + 1].chunkIndex = 0
               /\ \A j \in 1..k : entries[j].sourcePath # entries[k + 1].sourcePath

\* the place of a collected file in the list of the build
PlaceIn(files, filePath) ==
    CHOOSE k \in 1..Len(files) : files[k] = filePath

\* C26: within one rag-index call the embedding requests go one at a time
\* in (collected file order, chunk order): the pending request of a build is
\* for the chunk that follows the entries it holds, every entry held is of
\* an earlier chunk of the same file or of an earlier file, and the entries,
\* held or persisted, are in that order with chunkIndex rising from 0 within
\* each file.
C26_SequentialInOrder ==
    /\ store # NoIndex => FileByFile(store.entries)
    /\ \A b \in BuildIds :
          LET st == builds[b]
          IN  st.pc \in {"file", "embedding"} =>
                /\ FileByFile(st.entries)
                /\ \A k \in 1..Len(st.entries) :
                      /\ \E f \in 1..Len(st.files) : st.files[f] = st.entries[k].sourcePath
                      /\ PlaceIn(st.files, st.entries[k].sourcePath) <= st.fileIdx
                      /\ st.pc = "file"
                            => PlaceIn(st.files, st.entries[k].sourcePath) < st.fileIdx
                      /\ k > 1 => PlaceIn(st.files, st.entries[k - 1].sourcePath)
                                     <= PlaceIn(st.files, st.entries[k].sourcePath)
                /\ st.pc = "embedding" =>
                      /\ st.i < Len(st.chunks)
                      /\ st.i = Cardinality({ k \in 1..Len(st.entries) :
                                    st.entries[k].sourcePath = st.files[st.fileIdx] })
                      /\ \A k \in 1..Len(st.entries) :
                            st.entries[k].sourcePath = st.files[st.fileIdx]
                            => /\ st.entries[k].chunkIndex < st.i
                               /\ st.entries[k].content = st.chunks[st.entries[k].chunkIndex + 1]

\* two chunks of /w/a.md, then the chunks of /docs/long.md up to the budget
C26_Witness ==
    /\ store # NoIndex
    /\ Len(store.entries) = maxChunks
    /\ store.entries[1].sourcePath = "/w/a.md"
    /\ store.entries[2].sourcePath = "/w/a.md"
    /\ store.entries[2].chunkIndex = 1
    /\ store.entries[3].sourcePath = "/docs/long.md"
    /\ store.entries[3].chunkIndex = 0
    /\ store.entries[maxChunks].chunkIndex = maxChunks - 3

(***************************************************************************)
(* The confidence score of an engineered prompt (checked under             *)
(* HelperSpec), in hundredths.                                             *)
(***************************************************************************)

\* the task types whose configuration carries few-shot examples
TasksWithExamples == {"summarization", "classification", "extraction"}

\* min(1, 0.5 + 0.2*[task_type != 'default'] + 0.2*[constraints non-empty]
\*        + 0.05*[task config has examples])
ClaimedScore(taskType, constraints) ==
    LET sum == 50 + (IF taskType # "default" THEN 20 ELSE 0)
                  + (IF constraints # <<>> THEN 20 ELSE 0)
                  + (IF toLowerCase(taskType) \in TasksWithExamples THEN 5 ELSE 0)
    IN  IF sum > 100 THEN 100 ELSE sum

\* C28: confidence_score is min(1, 0.5 + 0.2*[task_type != 'default'] +
\* 0.2*[constraints non-empty] + 0.05*[task config has examples]); it lies
\* in (0, 1], is strictly greater with a constraint than with none for the
\* same task type, and exceeds 0.7 when constraints are non-empty and the
\* task type is not 'default'.
C28_ConfidenceScore ==
    call.fn = "generatePrompt" =>
        /\ call.confidence_score = ClaimedScore(call.task_type, call.constraints)
        /\ call.confidence_score > 0
        /\ call.confidence_score <= 100
        /\ call.constraints # <<>> =>
              /\ call.confidence_score > ClaimedScore(call.task_type, <<>>)
              /\ call.task_type # "default" => call.confidence_score > 70

\* the call of the repository's test: classification with two constraints
C28_Witness ==
    /\ call.fn = "generatePrompt"
    /\ call.task_type = "classification"
    /\ call.constraints = <<"Use strict tone", "Output JSON only">>
    /\ call.confidence_score = 95

(***************************************************************************)
(* NDJSON lines and the done flag (checked under Spec).                    *)
(***************************************************************************)

RECURSIVE ContentsOfLines(_)
\* one delta for every line whose JSON carries a non-empty message.content,
\* whatever its done flag
ContentsOfLines(lines) ==
    IF lines = <<>> THEN <<>>
    ELSE LET parsed == JSONParse(Head(lines))
         IN  (IF parsed.ok /\ Truthy(parsed.value.messageContent)
              THEN <<Chunk(parsed.value.messageContent)>>
              ELSE <<>>)
             \o ContentsOfLines(Tail(lines))

\* C30: NDJSON stream: every complete line whose JSON carries a non-empty
\* message.content yields exactly one delta with that content, whether its
\* done flag is false, true or absent (stated for bodies whose lines each
\* reached the parser whole).
C30_ContentWhateverDone ==
    (variant = "ollama" /\ Closed /\ ~midLineRead) =>
        ChunkEvents(events) = ContentsOfLines(BodyLines("ollama", response.body))

(***************************************************************************)
(* Streaming append in the renderer's store (checked under AppSpec).       *)
(***************************************************************************)

\* the deltas the main process has emitted for the latest stream, in order
EmittedDeltas == SubSeq("abcdefgh", 1, relay.emitted)

\* the chats with delta appended to the placeholder of the latest turn and
\* nothing else changed
WithDeltaOnPlaceholder(delta) ==
    [k \in 1..Len(chats) |->
        IF chats[k].id = turn.chat
        THEN [chats[k] EXCEPT !.messages[turn.at].content = @ \o delta]
        ELSE chats[k]]

\* the content of the placeholder of the latest turn
PlaceholderContent(chs) ==
    LET k == CHOOSE k \in 1..Len(chs) : chs[k].id = turn.chat
    IN  chs[k].messages[turn.at].content

\* C27: for a stream started by sendMessage(role 'user') during which the
\* current chat is not changed and no other message is added, every
\* stream-chunk appends its delta to the assistant placeholder and changes
\* no other message of any chat, and after stream-end the placeholder holds
\* the concatenation of the emitted deltas in order and streaming is false.
C27_StreamingAppend ==
    [][/\ (StreamChunk /\ ~turn.disturbed)
          => /\ turn.chat \in ChatIdsOf(chats)
             /\ chats' = WithDeltaOnPlaceholder(DeltaAt(relay.emitted + 1))
       /\ (StreamEnd /\ ~turn.disturbed)
          => /\ chats' = chats
             /\ turn.chat \in ChatIdsOf(chats)
             /\ PlaceholderContent(chats') = EmittedDeltas
             /\ streaming' = FALSE]_vars

\* a stream of two deltas ended undisturbed while another chat existed
C27_Witness ==
    /\ turn.phase = "ended"
    /\ ~turn.disturbed
    /\ relay.emitted = 2
    /\ Len(chats) = 2
    /\ currentChatId = turn.chat
    /\ PlaceholderContent(chats) = "ab"
    /\ ~streaming

\* C29: every delta of a stream is appended only to the assistant
\* placeholder created by the sendMessage call that started the stream, in
\* the chat that started it, whatever selectChat, createChat, deleteChat and
\* addMessage (handleEngineer's assistant message included) did meanwhile:
\* no delta goes to another message and none is lost.
C29_DeltaToOwnPlaceholder ==
    [][StreamChunk
         => /\ turn.chat \in ChatIdsOf(chats)
            /\ chats' = WithDeltaOnPlaceholder(DeltaAt(relay.emitted + 1))]_vars

(***************************************************************************)
(* The SSE buffer at close (checked under Spec).                           *)
(***************************************************************************)

\* the line left in the buffer when the whole body has been read: the text
\* after the last newline of the body
FinalLine(body) ==
    Last(split(body))

\* C31: SSE stream: when the connection closes, the deltas sent are those of
\* every line of the body, the final line that no newline terminated
\* included, and stream-end comes after them.
C31_FinalLineParsedAtClose ==
    (variant = "api" /\ Closed) =>
        events = DeltasOfLines("api", BodyLines("api", response.body))
                     \o ApiLineEvents(FinalLine(response.body))
                     \o <<End>>

(***************************************************************************)
(* The streaming flag and the streams in flight (checked under SendSpec    *)
(* and SendFairSpec).                                                      *)
(***************************************************************************)

\* the sendMessage calls that are waiting for their RAG lookup
PendingLookups ==
    { k \in 1..Len(send.calls) : send.calls[k].outcome = "pending" }

\* a chat holds the assistant message handleEngineer added
EngineeredAdded ==
    \E c \in 1..Len(chats) : \E m \in 1..Len(chats[c].messages) :
        /\ chats[c].messages[m].role = "assistant"
        /\ Contains(chats[c].messages[m].content, "### Engineered Prompt")

\* C32 as stated, its second half: streaming is set only while a stream that
\* was started has not yet delivered its terminal event.
C32_StreamingOnlyWhileStreamInFlight ==
    streaming => send.inflight > 0

\* C32: once streaming is set, by sendMessage for role 'user' or 'assistant',
\* it is reset later, given that lookups settle and streams deliver their
\* terminal event; and streaming is set only while a send waits for its RAG
\* lookup or a started stream has not yet delivered its terminal event.
C32_StreamingEventuallyReset ==
    /\ streaming ~> ~streaming
    /\ [](streaming => (PendingLookups # {} \/ send.inflight > 0))

\* handleEngineer has sent with a RAG lookup, the lookup settled, the stream
\* ran and delivered its terminal event
C32_Witness ==
    /\ ~streaming
    /\ EngineeredAdded
    /\ send.inflight = 0
    /\ \E k \in 1..Len(send.calls) : send.calls[k].outcome \in RagOutcomes

\* C33: at most one stream is in flight: no streamMessage is dispatched
\* between the dispatch of an earlier one and the arrival of its stream-end
\* or stream-error, whether or not sendMessage awaited a RAG lookup.
C33_OneStreamInFlight ==
    send.inflight <= 1

\* two streams were dispatched, one straight away and one after a lookup,
\* and the second is in flight
C33_Witness ==
    /\ Len(send.dispatched) = 2
    /\ send.inflight = 1
    /\ \E i, j \in 1..Len(send.dispatched) :
          /\ send.calls[send.dispatched[i].of].outcome = "none"
          /\ send.calls[send.dispatched[j].of].outcome \in RagOutcomes

\* the streamMessage payloads dispatched for call k
DispatchesOf(k) ==
    { d \in 1..Len(send.dispatched) : send.dispatched[d].of = k }

\* the assistant placeholder call k pushed
PlaceholderOf(k) ==
    LET id == send.calls[k].chat
        c  == CHOOSE c \in 1..Len(chats) : chats[c].id = id
    IN  chats[c].messages[send.calls[k].at]

\* C36: a lookup that ended with an error value or rejected is followed by
\* exactly one streamMessage, without the RAG context message, and the
\* placeholder has no sources; with RAG disabled or no source listed there
\* was no lookup.
C36_FailedLookupStillStreams ==
    \A k \in 1..Len(send.calls) :
        /\ send.calls[k].outcome \in {"error", "rejects"} =>
              /\ Cardinality(DispatchesOf(k)) = 1
              /\ \A d \in DispatchesOf(k) : ~send.dispatched[d].context
              /\ "sources" \notin DOMAIN PlaceholderOf(k)
        /\ ~UsesRag(send.calls[k].rag) =>
              /\ send.calls[k].outcome = "none"
              /\ Cardinality(DispatchesOf(k)) = 1

\* one lookup rejected, another returned an error value, both were followed
\* by their stream
C36_Witness ==
    \E k, j \in 1..Len(send.calls) :
        /\ send.calls[k].outcome = "rejects"
        /\ send.calls[j].outcome = "error"
        /\ DispatchesOf(k) # {}
        /\ DispatchesOf(j) # {}

(***************************************************************************)
(* The current chat (checked under AppSpec).                               *)
(***************************************************************************)

\* C37: after every createChat, deleteChat, sendMessage and selectChat of an
\* existing chat, currentChatId is null or the id of a chat in chats;
\* deleteChat of the current chat sets it to null; sendMessage with
\* currentChatId null creates exactly one new chat, selects it and adds the
\* message to it.
C37_CurrentChatValid ==
    [][ /\ (currentChatId' = NoChat \/ currentChatId' \in ChatIdsOf(chats'))
        /\ \A id \in 1..MaxChats :
              (currentChatId = id /\ Len(chats') < Len(chats) /\ DeleteChat(id)) =>
                  currentChatId' = NoChat
        /\ (currentChatId = NoChat /\ turn'.n > turn.n
                /\ (HandleDirectChat("q") \/ HandleEngineer("q"))) =>
              /\ Len(chats') = Len(chats) + 1
              /\ SubSeq(chats', 1, Len(chats)) = chats
              /\ chats'[Len(chats')].id \notin ChatIdsOf(chats)
              /\ currentChatId' = chats'[Len(chats')].id
              /\ chats'[Len(chats')].messages[1] = Message("user", "q")
      ]_vars

\* the only chat ever created was created by a sendMessage with no current
\* chat, and was deleted while it was the current one
C37_Witness ==
    /\ nextId = 2
    /\ turn.n = 1
    /\ chats = <<>>
    /\ currentChatId = NoChat

(***************************************************************************)
(* Entry ids and skipped files (checked under BuildSpec).                  *)
(***************************************************************************)

\* C34: in the persisted index no two entries have the same id, also when a
\* file is reachable from more than one source of the list.
C34_EntryIdsUnique ==
    store # NoIndex =>
        \A k, n \in 1..Len(store.entries) :
            store.entries[k].id = store.entries[n].id => k = n

\* the file fails one of the build's local tests: too large, cannot be
\* read, a PDF that does not parse, or not a PDF and holding a NUL byte
LocallySkipped(filePath) ==
    LET file  == FileSystem[filePath]
        isPdf == toLowerCase(extname(filePath)) = ".pdf"
    IN  \/ file.size > maxFileBytes
        \/ ~file.readable
        \/ isPdf /\ ~file.pdfOk
        \/ ~isPdf /\ file.nul

RECURSIVE BuildToEnd(_)
\* the entries a build ends with when every embedding request succeeds
BuildToEnd(st) ==
    IF st.pc = "save" THEN st.entries
    ELSE IF st.pc = "file" THEN BuildToEnd(OpenFile(st))
    ELSE BuildToEnd(EmbedReturned(st, Embed(st.model, st.chunks[st.i + 1])))

\* the entries of a build over the given file list
EntriesOfBuild(files, model) ==
    BuildToEnd(AfterFile([IdleBuild EXCEPT !.model = model, !.files = files,
                                           !.fileIdx = 0]))

\* the list without its p-th file
Without(files, p) ==
    SubSeq(files, 1, p - 1) \o SubSeq(files, p + 1, Len(files))

\* C35: when a build ends below the maxChunks budget, a file of its list
\* that was skipped locally has no entry, the entries are those of a build
\* over the list without that file, and the build returned its count and
\* wrote the index.
C35_LocalSkipsIsolated ==
    [][ (builds[1].pc \in {"file", "embedding"} /\ builds'[1].pc = "done"
            /\ Len(store'.entries) < maxChunks) =>
          LET files == builds[1].files
          IN  \A p \in 1..Len(files) :
                LocallySkipped(files[p]) =>
                  /\ \A k \in 1..Len(store'.entries) :
                        store'.entries[k].sourcePath # files[p]
                  /\ store'.entries = EntriesOfBuild(Without(files, p), builds[1].model)
                  /\ builds'[1].result = IndexDone(Len(store'.entries), store'.indexedAt)
      ]_vars

\* a build has passed a file with a NUL byte, an unparsable PDF, a file over
\* 2 MB and an unreadable file, and has entries of files before and after
C35_Witness ==
    LET st == builds[1]
    IN  /\ st.pc = "file"
        /\ \A path \in {"/w/bin.json", "/w/src/bad.pdf", "/w/src/big.txt", "/w/src/gone.py"} :
              \E p \in 1..(st.fileIdx - 1) : st.files[p] = path
        /\ \E k \in 1..Len(st.entries) : st.entries[k].sourcePath = "/w/a.md"
        /\ \E k \in 1..Len(st.entries) : st.entries[k].sourcePath = "/w/src/doc.pdf"

(***************************************************************************)
(* Termination of chunkText (checked under LoopSpec).                      *)
(***************************************************************************)

\* C38: with chunkSize greater than chunkOverlap the window start grows in
\* every iteration that does not leave the loop, so chunkText terminates:
\* the iterations are at most ceil(length / (chunkSize - chunkOverlap)), and
\* never more than maxChunks chunks are emitted.
C38_ChunkTextTerminates ==
    [][ (call.fn = "chunkText:while" /\ call.pc = "loop") =>
          /\ call'.iterations = call.iterations + 1
          /\ call'.pc = "loop" => call'.start > call.start
          /\ (call'.iterations - 1) * (call.size - call.overlap) < Len(call.cleaned)
          /\ Len(call'.chunks) <= call.max
      ]_vars

\* the loop has returned after three iterations over a text of 2500
\* characters with chunkSize 1000 and chunkOverlap 200
C38_Witness ==
    /\ call.fn = "chunkText:while"
    /\ call.pc = "returned"
    /\ call.size = ChunkSizeInSource
    /\ call.overlap = ChunkOverlapInSource
    /\ Len(call.cleaned) = 2500
    /\ call.iterations = 3
====
